---------------------------- MODULE Spec2Model ----------------------------
(***************************************************************************)
(* A model of yext/glog: the verbosity filter (V, Level.Set,               *)
(* moduleSpec.Set, setVState, setV) of glog.go and the event hub           *)
(* (RegisterBackend, eventForBackends, broadcastEvents) of                 *)
(* glog_backend.go, fed by the emission pipeline (printWithDepth,          *)
(* outputWithDepth).                                                       *)
(*                                                                         *)
(* The two halves share only the mutex logging.mu.  SpecFilter lets the    *)
(* filter's threads run, SpecHub the hub's; each leaves the other half's   *)
(* variables alone.                                                        *)
(***************************************************************************)
EXTENDS Integers, Sequences, FiniteSets, TLC

(***************************************************************************)
(* Bounds of the model.                                                    *)
(***************************************************************************)
\* Largest verbosity level a caller requests or sets.
MaxLevel == 2
\* Number of goroutines calling V concurrently.
NumVThreads == 1

\* Number of goroutines logging concurrently.
NumLoggers == 2
\* Number of log calls made in all.
MaxEvents == 3
\* Capacity of messageChan (make(chan Event, 10) in the source), scaled down
\* so that a full queue is reached.
MessageChanCap == 1
\* Capacity of a backend's channel (make(chan Event, 100) in the source),
\* scaled down so that a full channel is reached.
BackendChanCap == 2

\* The verbosity levels callers request and set.
Levels == 0 .. MaxLevel
VThreads == 1 .. NumVThreads
Loggers == 1 .. NumLoggers
Events == 1 .. MaxEvents
\* The channels RegisterBackend returns, in the order of the calls: two
\* registrations are made in a run.
Backends == {1, 2}

(***************************************************************************)
(* Call sites.  A call site is a program counter; runtime.FuncForPC and    *)
(* FileLine give the path of its source file: site 1 lies in /s/a.go,      *)
(* site 2 in /t/ab.go.                                                     *)
(***************************************************************************)
CallSites == {1, 2}

FileLine(pc) ==
  IF pc = 1 THEN <<"/", "s", "/", "a", ".", "g", "o">>
            ELSE <<"/", "t", "/", "a", "b", ".", "g", "o">>

\* strings.HasSuffix
HasSuffix(s, suf) ==
  /\ Len(s) >= Len(suf)
  /\ SubSeq(s, Len(s) - Len(suf) + 1, Len(s)) = suf

\* strings.LastIndex for a one-character separator; 0 when absent
\* (positions are 1-based here, Go answers -1).
LastIndex(s, ch) ==
  LET at == {i \in 1 .. Len(s) : s[i] = ch}
  IN  IF at = {} THEN 0 ELSE CHOOSE i \in at : \A j \in at : j <= i

\* setV, lines 775-783: the file of the call site, ".go" and directory cut.
SiteFile(pc) ==
  LET file  == FileLine(pc)
      noGo  == IF HasSuffix(file, <<".", "g", "o">>)
               THEN SubSeq(file, 1, Len(file) - 3) ELSE file
      slash == LastIndex(noGo, "/")
  IN  IF slash >= 1 THEN SubSeq(noGo, slash + 1, Len(noGo)) ELSE noGo

(***************************************************************************)
(* Patterns.                                                               *)
(***************************************************************************)
MetaChars == {"*", "?", "[", "]", "\\"}

\* isLiteral: the pattern holds no metacharacter.
isLiteral(pattern) == \A i \in 1 .. Len(pattern) : pattern[i] \notin MetaChars

\* filepath.Match restricted to the metacharacters * and ? (neither matches
\* the separator); the patterns of VmoduleValues use no others.
RECURSIVE GlobMatch(_, _)
GlobMatch(p, s) ==
  IF p = <<>> THEN s = <<>>
  ELSE IF Head(p) = "*"
       THEN \/ GlobMatch(Tail(p), s)
            \/ (s # <<>> /\ Head(s) # "/" /\ GlobMatch(p, Tail(s)))
       ELSE /\ s # <<>>
            /\ IF Head(p) = "?" THEN Head(s) # "/" ELSE Head(p) = Head(s)
            /\ GlobMatch(Tail(p), Tail(s))

\* modulePat.match
match(m, file) ==
  IF m.literal THEN file = m.pattern ELSE GlobMatch(m.pattern, file)

modulePat(pattern, level) ==
  [pattern |-> pattern, literal |-> isLiteral(pattern), level |-> level]

\* A Go int as strconv.Atoi returns it where an int is 64 bits wide: its
\* sign and the four 16-bit limbs of its magnitude, least first.  (The
\* integers of the model are 32 bits wide, too narrow for it.)
LimbBase == 2 ^ 16

ZeroLimbs == <<0, 0, 0, 0>>

\* limbs * 10 + carry, limb by limb; what does not fit is left in carry.
RECURSIVE MulAdd(_, _)
MulAdd(limbs, carry) ==
  IF limbs = <<>> THEN [limbs |-> <<>>, carry |-> carry]
  ELSE LET x    == Head(limbs) * 10 + carry
           rest == MulAdd(Tail(limbs), x \div LimbBase)
       IN  [limbs |-> <<x % LimbBase>> \o rest.limbs, carry |-> rest.carry]

\* The magnitude of a number in decimal digits ("0" .. "9").
RECURSIVE Magnitude(_)
Magnitude(digits) ==
  IF digits = <<>> THEN [limbs |-> ZeroLimbs, carry |-> 0]
  ELSE LET m == Magnitude(SubSeq(digits, 1, Len(digits) - 1))
           d == CHOOSE k \in 0 .. 9 :
                  <<"0", "1", "2", "3", "4", "5", "6", "7", "8", "9">>[k + 1]
                    = digits[Len(digits)]
           n == MulAdd(m.limbs, d)
       IN  [limbs |-> n.limbs,
            carry |-> IF m.carry > 0 THEN m.carry ELSE n.carry]

\* strconv.Atoi(s), line 256: an optional sign and one decimal digit or
\* more, of a value an int holds.
ParseInt(s) ==
  LET signed == s # <<>> /\ s[1] \in {"-", "+"}
      body   == IF signed THEN Tail(s) ELSE s
      syntax == /\ body # <<>>
                /\ \A i \in 1 .. Len(body) :
                     body[i] \in {"0", "1", "2", "3", "4", "5", "6", "7",
                                  "8", "9"}
      m      == IF syntax THEN Magnitude(body)
                ELSE [limbs |-> ZeroLimbs, carry |-> 0]
      neg    == signed /\ s[1] = "-" /\ m.limbs # ZeroLimbs
      fits   == /\ m.carry = 0
                /\ \/ m.limbs[4] < LimbBase \div 2
                   \/ neg /\ m.limbs = <<0, 0, 0, LimbBase \div 2>>
  IN  [ok |-> syntax /\ fits, neg |-> neg, limbs |-> m.limbs]

\* Level(v), line 267, for an int v >= 0: the conversion to int32 keeps the
\* low 32 bits, the top one of them as the sign.
Level(v) ==
  IF v.limbs[2] >= LimbBase \div 2
  THEN (v.limbs[2] - LimbBase) * LimbBase + v.limbs[1]
  ELSE v.limbs[2] * LimbBase + v.limbs[1]

\* A -vmodule value after strings.Split on "," and "=": the list of its
\* pattern=N entries, N the characters of the number.
Entry(p, n) == [pattern |-> p, n |-> n]

VmoduleValues ==
  { <<>>,
    <<Entry(<<"a">>, <<"2">>)>>,
    <<Entry(<<"a">>, <<"1">>), Entry(<<"a", "*">>, <<"2">>)>>,
    <<Entry(<<"a">>, <<"0">>), Entry(<<"a", "*">>, <<"2">>)>>,
    <<Entry(<<"b">>, <<"-", "1">>)>> }

\* -vmodule values whose numbers do not fit an int32: 2^32, 2^31, 2^32 + 2.
WideValues ==
  { <<Entry(<<"a">>, <<"4", "2", "9", "4", "9", "6", "7", "2", "9", "6">>)>>,
    <<Entry(<<"a">>, <<"2", "1", "4", "7", "4", "8", "3", "6", "4", "8">>)>>,
    <<Entry(<<"a">>, <<"1">>),
      Entry(<<"a", "*">>, <<"4", "2", "9", "4", "9", "6", "7", "2", "9", "8">>)>> }

\* moduleSpec.Set, lines 245-268: the filter built from the entries; an
\* entry whose number is 0 is skipped.  (A negative number is refused
\* before this.)
RECURSIVE ParseFilter(_)
ParseFilter(value) ==
  IF value = <<>> THEN <<>>
  ELSE IF ParseInt(Head(value).n).limbs = ZeroLimbs
       THEN ParseFilter(Tail(value))
       ELSE <<modulePat(Head(value).pattern, Level(ParseInt(Head(value).n)))>>
              \o ParseFilter(Tail(value))

\* moduleSpec.Set, lines 256-262: a number strconv.Atoi refuses, or a
\* negative one, makes Set return an error.
SetFails(value) ==
  \E i \in 1 .. Len(value) :
    ~ParseInt(value[i].n).ok \/ ParseInt(value[i].n).neg

(***************************************************************************)
(* Severities, arguments and events.                                       *)
(***************************************************************************)
infoLog == 0
warningLog == 1
errorLog == 2
fatalLog == 3

\* severityName and severityChar, indexed from 1 here.
severityName == <<"INFO", "WARNING", "ERROR", "FATAL">>

severityChar == <<"I", "W", "E", "F">>

\* The entry points, by the function of loggingT they call: print, println
\* and printf.  "V." names a method of Verbose, "Logger." one of *Logger.
PrintFns ==
  {"Info", "Warning", "Error", "Fatal", "Exit", "V.Info", "WarningIf",
   "ErrorIf", "FatalIf", "Logger.Info", "Logger.Warning", "Logger.Error"}

PrintlnFns == {"Infoln", "V.Infoln"}

PrintfFns ==
  {"Infof", "Warningf", "Errorf", "Fatalf", "V.Infof", "WarningfIf",
   "ErrorfIf", "Logger.Infof", "Logger.Warningf", "Logger.Errorf"}

\* The entry points: the severity each logs at.  Exit logs at fatalLog.
severityOf(fn) ==
  CASE fn \in {"Info", "Infoln", "Infof", "V.Info", "V.Infoln", "V.Infof",
               "Logger.Info", "Logger.Infof"} -> infoLog
    [] fn \in {"Warning", "Warningf", "WarningIf", "WarningfIf",
               "Logger.Warning", "Logger.Warningf"} -> warningLog
    [] fn \in {"Error", "Errorf", "ErrorIf", "ErrorfIf", "Logger.Error",
               "Logger.Errorf"} -> errorLog
    [] fn \in {"Fatal", "Fatalf", "FatalIf"} -> fatalLog
    [] fn = "Exit" -> fatalLog

\* An argument of a log call: a value, or a value wrapped by Data.
Plain(x) == [tagged |-> FALSE, d |-> x]

\* Data(arg) returns data{arg}.
Data(x) == [tagged |-> TRUE, d |-> x]

\* Mutant of filterData: a tagged argument is unwrapped and kept with the
\* arguments for the line as well.
RECURSIVE filterDataKeep(_)
filterDataKeep(args) ==
  IF args = <<>> THEN [realArgs |-> <<>>, dataArgs |-> <<>>]
  ELSE LET rest == filterDataKeep(Tail(args))
           arg  == Head(args)
       IN  IF arg.tagged
           THEN [rest EXCEPT !.dataArgs = <<arg.d>> \o @,
                             !.realArgs = <<Plain(arg.d)>> \o @]
           ELSE [rest EXCEPT !.realArgs = <<arg>> \o @]

\* filterData: the arguments for the line and, unwrapped, those for the
\* backends, each in call order.
RECURSIVE filterData(_)
filterData(args) ==
  IF args = <<>> THEN [realArgs |-> <<>>, dataArgs |-> <<>>]
  ELSE LET rest == filterData(Tail(args))
           arg  == Head(args)
       IN  IF arg.tagged
           THEN [rest EXCEPT !.dataArgs = <<arg.d>> \o @]
           ELSE [rest EXCEPT !.realArgs = <<arg>> \o @]

\* headerWithDepth: the line's prefix.  Of the severity character, the time
\* and the file:line] only the severity character is kept.
headerWithDepth(s) == <<severityChar[s + 1]>>

\* fmt.Fprint(buf, args...): each operand's text is written to the buffer
\* (the text of a value is the value's name).
Fprint(buf, args) == buf \o [i \in 1 .. Len(args) |-> args[i].d]

\* fmt.Fprintln(buf, args...): the operands' texts with a space between two
\* of them and a newline at the end.
RECURSIVE Fprintln(_, _)
Fprintln(buf, args) ==
  IF args = <<>> THEN Append(buf, "\n")
  ELSE IF Len(args) = 1 THEN Fprintln(Append(buf, args[1].d), <<>>)
  ELSE Fprintln(buf \o <<args[1].d, " ">>, Tail(args))

\* fmt.Fprintf(buf, format, args...), the format a sequence of characters:
\* a verb (%v, %s, %+v) writes the text of the next operand, or a note that
\* it is missing; any other character is copied; operands left over are
\* noted at the end.
RECURSIVE Fprintf(_, _, _)
Fprintf(buf, format, args) ==
  IF format = <<>>
  THEN IF args = <<>> THEN buf ELSE Append(buf, "%!(EXTRA)")
  ELSE IF Head(format) # "%"
  THEN Fprintf(Append(buf, Head(format)), Tail(format), args)
  ELSE LET n == IF Len(format) >= 2 /\ format[2] = "+" THEN 3 ELSE 2
       IN  IF Len(format) < n THEN Append(buf, "%!(NOVERB)")
           ELSE IF args = <<>>
           THEN Fprintf(Append(buf, "%!v(MISSING)"),
                        SubSeq(format, n + 1, Len(format)), args)
           ELSE Fprintf(Append(buf, Head(args).d),
                        SubSeq(format, n + 1, Len(format)), Tail(args))

\* The error values passed to log calls, and the nil error.
Errors == {"err1"}

NilError == "nil"

\* err.Error(): the error's message.
ErrorText(err) == IF err = "err1" THEN "test error" ELSE "<nil>"

\* formatErrors, lines 579-589: an operand that is an error is replaced by
\* fmt.Sprintf("%+v", err), its message (followed by the detail, if it has
\* any); the others are kept.
formatErrors(args) ==
  [i \in 1 .. Len(args) |->
     IF args[i].d \in Errors THEN [args[i] EXCEPT !.d = ErrorText(@)]
     ELSE args[i]]

\* The characters of a string, as the string.
RECURSIVE Join(_)
Join(chars) == IF chars = <<>> THEN "" ELSE Head(chars) \o Join(Tail(chars))

\* FormatStringArg{format} and ErrorArg{err} (xerrors.go), as data values.
FormatStringArg(format) == "FormatStringArg{" \o Join(format) \o "}"

ErrorArg(err) == "ErrorArg{" \o err \o "}"

\* printWithDepth, lines 618-620: a newline is added if the last byte is none.
withNewline(buf) ==
  IF buf[Len(buf)] # "\n" THEN Append(buf, "\n") ELSE buf

\* Mutant of NewEvent: the stack is captured at every severity.
NewEventStacks(s, message, dataArgs) ==
  [Severity |-> severityName[s + 1], Message |-> message, Data |-> dataArgs,
   StackTrace |-> TRUE]

\* NewEvent: the stack trace is captured for errorLog and above; only
\* whether it holds frames is kept.  (The callers, glog.go lines 602, 624
\* and 650, pass no frames of their own.)
NewEvent(s, message, dataArgs) ==
  [Severity |-> severityName[s + 1], Message |-> message, Data |-> dataArgs,
   StackTrace |-> s >= errorLog]

\* A Logger (logger.go, lines 9-14): its prefix and its data.
NoLogger == [prefix |-> "", data |-> <<>>]

\* A log call: the entry point and its arguments; for the entry points that
\* have one, the format, the error or Verbose value that guards the call,
\* and the Logger the method is called on.
Call(fn, args) ==
  [fn |-> fn, args |-> args, format |-> <<>>, err |-> NilError, v |-> TRUE,
   lg |-> NoLogger]

Callf(fn, format, args) == [Call(fn, args) EXCEPT !.format = format]

CallIf(fn, err, format, args) ==
  [Call(fn, args) EXCEPT !.format = format, !.err = err]

CallV(fn, v, format, args) == [Call(fn, args) EXCEPT !.format = format, !.v = v]

CallL(fn, lg, format, args) ==
  [Call(fn, args) EXCEPT !.format = format, !.lg = lg]

\* Mutant of extend: the Logger's data are appended as they are.
extendPlain(l, args) == args \o [i \in 1 .. Len(l.data) |-> Plain(l.data[i])]

\* Logger.extend, lines 176-181: the Logger's data, each wrapped as Data()
\* wraps, after the arguments.
extend(l, args) == args \o [i \in 1 .. Len(l.data) |-> Data(l.data[i])]

\* Logger.extendWithPfx, lines 167-174: the prefix, if not empty, goes
\* before the arguments.
extendWithPfx(l, args) ==
  extend(l, IF l.prefix # "" THEN <<Plain(l.prefix)>> \o args ELSE args)

\* Logger.pfx, lines 183-185: fmt.Sprintf("%v %v", l.prefix, log).
pfx(l, format) ==
  (IF l.prefix # "" THEN <<l.prefix>> ELSE <<>>) \o <<" ">> \o format

\* What an entry point passes on to print, println or printf once its guard,
\* if it has one, has let the call through: the format and the arguments.
\* (Verbose, lines 843-889; the If entry points, lines 933-1068; Logger,
\* logger.go, lines 78-165; the others pass on what they got.)
entry(call) ==
  CASE call.fn \in {"WarningIf", "FatalIf"} ->
         [format |-> <<>>,
          args |-> IF call.args # <<>>
                   THEN Append(call.args,
                               Plain(": " \o ErrorText(call.err)))
                   ELSE <<Plain(call.err)>>]
    [] call.fn = "ErrorIf" ->
         [format |-> <<>>,
          args |-> (IF call.args # <<>> THEN Append(call.args, Plain(": "))
                    ELSE call.args) \o <<Plain(call.err)>>]
    [] call.fn \in {"WarningfIf", "ErrorfIf"} ->
         [format |-> call.format \o <<":", " ", "%", "+", "v">>,
          args |-> Append(call.args, Plain(call.err))]
    [] call.fn \in {"Logger.Info", "Logger.Warning", "Logger.Error"} ->
         [format |-> <<>>, args |-> extendWithPfx(call.lg, call.args)]
    [] call.fn \in {"Logger.Infof", "Logger.Warningf", "Logger.Errorf"} ->
         [format |-> pfx(call.lg, call.format),
          args |-> extend(call.lg, call.args)]
    [] OTHER -> [format |-> call.format, args |-> call.args]

\* Lines 598, 613 and 636: the header and the operands, formatted as the
\* function called formats them.
message(fn, s, format, args) ==
  CASE fn \in PrintfFns -> Fprintf(headerWithDepth(s), format, args)
    [] fn \in PrintlnFns -> Fprintln(headerWithDepth(s), args)
    [] OTHER -> Fprint(headerWithDepth(s), args)

\* Mutant of withFormat: the format is put before the tagged values.
withFormatFirst(fn, format, dataArgs) ==
  IF fn \in PrintfFns THEN <<FormatStringArg(format)>> \o dataArgs
  ELSE dataArgs

\* Line 649: printf adds the format it was passed to the data, once
\* outputWithDepth has returned.
withFormat(fn, format, dataArgs) ==
  IF fn \in PrintfFns THEN Append(dataArgs, FormatStringArg(format))
  ELSE dataArgs

\* The call the goroutines of the hub make.
HubCall == Call("Info", <<Plain("a")>>)

(***************************************************************************)
(* State.                                                                  *)
(***************************************************************************)
VARIABLES
  verbosity,      \* logging.verbosity (atomic)
  filterLength,   \* logging.filterLength (atomic)
  vmodule,        \* logging.vmodule.filter
  vmap,           \* logging.vmap: call site -> Level
  mu,             \* logging.mu: <<>> when free, else its holder
  vcall,          \* each V goroutine: where it is in V, and its locals
  setter,         \* the goroutine calling Level.Set / moduleSpec.Set
  vmapFrom,       \* history: the filter each vmap entry was resolved against
  wiped,          \* history: the call sites whose cached level was discarded
                  \* by the configuration change in progress or last made,
                  \* and differs under the new filter
  messageChan,    \* the relay queue: events sent and not yet taken
  backendChans,   \* the subscriber list: the channels registered, in order
  chanBuf,        \* each backend channel made: the events buffered in it
  bcast,          \* the broadcastEvents goroutine: where it is, its locals
  logger,         \* each logging goroutine: where it is in printWithDepth
  lines,          \* number of lines written to the sink; an event is named
                  \* by the number of its line
  sink,           \* what output.Write was given, in order: per write the
                  \* call it belongs to, its kind and its bytes
  stats,          \* severityStats: per severity the lines and bytes counted
  fatalNoStacks,  \* fatalNoStacks (atomic)
  flush,          \* each goroutine calling Flush: where it is
  exited,         \* <<>> while the process runs; after os.Exit the status
                  \* and the goroutine that called it
  eventOf,        \* the Event NewEvent built for each line, by line number
  calls,          \* history: the call that wrote each line, by line number
  traceLocation,  \* logging.traceLocation
  published,      \* history: the events put on messageChan, in order
  received,       \* history: the events each subscriber took off its channel
  regSeen,        \* history: per channel, how many events had been
                  \* published, and how many fanned out, when it was appended
  relayLost,      \* history: the events dropped because messageChan was full
  lost,           \* history: per channel, the events dropped because it was full
  backendLen,     \* the length word of the slice backendChans
  reg,            \* each goroutine calling RegisterBackend step by step:
                  \* where it is, its channel and the slice it built
  tasks,          \* the number of broadcastEvents goroutines started
  returned,       \* the channels RegisterBackend has returned
  heap,           \* the Logger objects made so far, by address
  skipped,        \* the guarded call that last returned at its guard
  given,          \* history: the pattern=N entries of the value the
                  \* -vmodule setting in force was given
  freeList,       \* logging.freeList: the address of the first free buffer
  buffers,        \* the buffers allocated so far, by address: the bytes
                  \* each holds and its next pointer
  bufcall         \* each logging goroutine, seen buffer by buffer: where it
                  \* is in printWithDepth and the buffer it holds

filterVars == <<verbosity, filterLength, vmodule, vmap, mu, vcall, setter,
                vmapFrom, wiped>>

hubVars == <<messageChan, backendChans, chanBuf, bcast, logger, lines,
             published, received, regSeen, relayLost, lost>>

emitVars == <<sink, stats, fatalNoStacks, flush, exited, eventOf, calls,
             traceLocation>>

regVars == <<backendLen, reg, tasks, returned>>

objVars == <<heap, skipped>>

bufVars == <<freeList, buffers, bufcall>>

vars == <<filterVars, hubVars, emitVars, regVars, objVars, given, bufVars>>

Free == <<>>

EmptyMap == [pc \in {} |-> 0]

IdleV == [pc |-> "idle", site |-> 0, level |-> 0, v |-> 0, res |-> FALSE]

\* The Set call at rest.  Besides the arguments of setVState a call in
\* progress holds, as history, the value it was given and what it found on
\* entry of the settings it is not there to change.
IdleSetter == [pc |-> "idle", verbosity |-> 0, filter |-> <<>>,
               setFilter |-> FALSE, value |-> <<>>, kept |-> <<>>]

\* init(), line 359: setVState(0, nil, false) on the zero value of loggingT.
InitFilter ==
  /\ verbosity = 0
  /\ filterLength = 0
  /\ vmodule = <<>>
  /\ vmap = EmptyMap
  /\ mu = Free
  /\ vcall = [t \in VThreads |-> IdleV]
  /\ setter = IdleSetter
  /\ vmapFrom = EmptyMap
  /\ wiped = {}

(***************************************************************************)
(* V, lines 812-839, one action per shared access.                         *)
(***************************************************************************)
\* Mutant of GloballyEnabled: the comparison is strict.
GloballyEnabledStrict(verb, level) == verb > level

\* Line 817: the global test.
GloballyEnabled(verb, level) == verb >= level

\* Line 823: the vmodule test.
VmoduleEnabled(flen) == flen > 0

\* Mutant of SiteEnabled: the comparison is strict.
SiteEnabledStrict(v, level) == v > level

\* Line 836: the answer of a call site whose level is v.
SiteEnabled(v, level) == v >= level

\* A goroutine enters V(level) at call site pc.
VCall(t) ==
  /\ vcall[t].pc = "idle"
  /\ \E site \in CallSites, level \in Levels :
       vcall' = [vcall EXCEPT ![t] =
                   [IdleV EXCEPT !.pc = "verbosity", !.site = site,
                                 !.level = level]]
  /\ UNCHANGED <<verbosity, filterLength, vmodule, vmap, mu, setter,
                 vmapFrom, wiped>>
  /\ UNCHANGED <<hubVars, emitVars>>
  /\ UNCHANGED regVars
  /\ UNCHANGED <<objVars, given, bufVars>>

\* Line 817: logging.verbosity.get() >= level.
VLoadVerbosity(t) ==
  /\ vcall[t].pc = "verbosity"
  /\ vcall' = [vcall EXCEPT ![t] =
        IF GloballyEnabled(verbosity, vcall[t].level)
        THEN [@ EXCEPT !.pc = "done", !.res = TRUE]
        ELSE [@ EXCEPT !.pc = "filterLength"]]
  /\ UNCHANGED <<verbosity, filterLength, vmodule, vmap, mu, setter,
                 vmapFrom, wiped>>
  /\ UNCHANGED <<hubVars, emitVars>>
  /\ UNCHANGED regVars
  /\ UNCHANGED <<objVars, given, bufVars>>

\* Line 823: atomic.LoadInt32(&logging.filterLength) > 0; line 838 otherwise.
VLoadFilterLength(t) ==
  /\ vcall[t].pc = "filterLength"
  /\ vcall' = [vcall EXCEPT ![t] =
        IF VmoduleEnabled(filterLength)
        THEN [@ EXCEPT !.pc = "lock"]
        ELSE [@ EXCEPT !.pc = "done", !.res = FALSE]]
  /\ UNCHANGED <<verbosity, filterLength, vmodule, vmap, mu, setter,
                 vmapFrom, wiped>>
  /\ UNCHANGED <<hubVars, emitVars>>
  /\ UNCHANGED regVars
  /\ UNCHANGED <<objVars, given, bufVars>>

\* Mutant of MayLock: the lock excludes nobody.
MayLockAlways(who) == TRUE

\* Whether goroutine `who` may take logging.mu now.
MayLock(who) == mu = Free

\* Line 827: logging.mu.Lock().
VLock(t) ==
  /\ vcall[t].pc = "lock"
  /\ MayLock(<<"V", t>>)
  /\ mu' = <<"V", t>>
  /\ vcall' = [vcall EXCEPT ![t].pc = "lookup"]
  /\ UNCHANGED <<verbosity, filterLength, vmodule, vmap, setter, vmapFrom,
                 wiped>>
  /\ UNCHANGED <<hubVars, emitVars>>
  /\ UNCHANGED regVars
  /\ UNCHANGED <<objVars, given, bufVars>>

\* Lines 829-833: the call site's program counter (runtime.Callers(2, ...)
\* finds V's caller) and the lookup in vmap.
VLookup(t) ==
  /\ vcall[t].pc = "lookup"
  /\ vcall' = [vcall EXCEPT ![t] =
        IF vcall[t].site \in DOMAIN vmap
        THEN [@ EXCEPT !.pc = "return", !.v = vmap[vcall[t].site]]
        ELSE [@ EXCEPT !.pc = "setV"]]
  /\ UNCHANGED <<verbosity, filterLength, vmodule, vmap, mu, setter,
                 vmapFrom, wiped>>
  /\ UNCHANGED <<hubVars, emitVars>>
  /\ UNCHANGED regVars
  /\ UNCHANGED <<objVars, given, bufVars>>

\* Mutant of setVLevel: the loop does not stop at the first match, so the
\* last filter that matches decides.
RECURSIVE setVLevelLast(_, _)
setVLevelLast(filter, file) ==
  IF filter = <<>> THEN 0
  ELSE IF match(filter[Len(filter)], file) THEN filter[Len(filter)].level
       ELSE setVLevelLast(SubSeq(filter, 1, Len(filter) - 1), file)

\* setV, lines 784-791: the level of the first filter that matches, else 0.
RECURSIVE setVLevel(_, _)
setVLevel(filter, file) ==
  IF filter = <<>> THEN 0
  ELSE IF match(Head(filter), file) THEN Head(filter).level
       ELSE setVLevel(Tail(filter), file)

\* m with key k set to x (a Go map assignment).
MapPut(m, k, x) ==
  [j \in DOMAIN m \cup {k} |-> IF j = k THEN x ELSE m[j]]

\* Line 834 and setV, lines 774-792: the level of the call site's file under
\* l.vmodule.filter, stored in l.vmap.
VSetV(t) ==
  /\ vcall[t].pc = "setV"
  /\ LET v == setVLevel(vmodule, SiteFile(vcall[t].site))
     IN  /\ vmap' = MapPut(vmap, vcall[t].site, v)
         /\ vcall' = [vcall EXCEPT ![t] = [@ EXCEPT !.pc = "return", !.v = v]]
  /\ vmapFrom' = MapPut(vmapFrom, vcall[t].site, vmodule)
  /\ UNCHANGED <<verbosity, filterLength, vmodule, mu, setter, wiped>>
  /\ UNCHANGED <<hubVars, emitVars>>
  /\ UNCHANGED regVars
  /\ UNCHANGED <<objVars, given, bufVars>>

\* Lines 836 and 828: return Verbose(v >= level), the deferred Unlock.
VUnlock(t) ==
  /\ vcall[t].pc = "return"
  /\ mu' = IF mu = <<"V", t>> THEN Free ELSE mu
  /\ vcall' = [vcall EXCEPT ![t] =
        [@ EXCEPT !.pc = "done",
                  !.res = SiteEnabled(vcall[t].v, vcall[t].level),
                  !.v = 0]]
  /\ UNCHANGED <<verbosity, filterLength, vmodule, vmap, setter, vmapFrom,
                 wiped>>
  /\ UNCHANGED <<hubVars, emitVars>>
  /\ UNCHANGED regVars
  /\ UNCHANGED <<objVars, given, bufVars>>

\* The caller has V's answer and goes on.
VDone(t) ==
  /\ vcall[t].pc = "done"
  /\ vcall' = [vcall EXCEPT ![t] = IdleV]
  /\ UNCHANGED <<verbosity, filterLength, vmodule, vmap, mu, setter,
                 vmapFrom, wiped>>
  /\ UNCHANGED <<hubVars, emitVars>>
  /\ UNCHANGED regVars
  /\ UNCHANGED <<objVars, given, bufVars>>

(***************************************************************************)
(* Level.Set, moduleSpec.Set and setVState, one action per assignment.     *)
(***************************************************************************)
\* Level.Set, lines 187-194: Lock, then setVState(Level(v),
\* logging.vmodule.filter, false).
LevelSet ==
  /\ setter.pc = "idle"
  /\ MayLock(<<"Set">>)
  /\ mu' = <<"Set">>
  /\ \E v \in Levels :
       setter' = [pc |-> "verbosityOff", verbosity |-> v, filter |-> vmodule,
                  setFilter |-> FALSE, value |-> <<>>,
                  kept |-> [filter |-> vmodule, filterLength |-> filterLength,
                            vmap |-> vmap]]
  /\ wiped' = {}
  /\ UNCHANGED <<verbosity, filterLength, vmodule, vmap, vcall, vmapFrom>>
  /\ UNCHANGED <<hubVars, emitVars>>
  /\ UNCHANGED regVars
  /\ UNCHANGED <<objVars, given, bufVars>>

\* Lines 246-268 for each of the values given, worked out once: whether
\* Set returns an error, and the filter it makes otherwise.
Parsed ==
  [value \in VmoduleValues \cup WideValues |->
     [fails |-> SetFails(value), filter |-> ParseFilter(value)]]

\* moduleSpec.Set, lines 244-271: the filter is parsed, then Lock and
\* setVState(logging.verbosity, filter, true).
ModuleSpecSetTo(value) ==
  /\ setter.pc = "idle"
  /\ MayLock(<<"Set">>)
  /\ ~Parsed[value].fails
  /\ setter' = [pc |-> "verbosityOff", verbosity |-> verbosity,
                filter |-> Parsed[value].filter, setFilter |-> TRUE,
                value |-> value, kept |-> [verbosity |-> verbosity]]
  /\ mu' = <<"Set">>
  /\ wiped' = {}
  /\ UNCHANGED <<verbosity, filterLength, vmodule, vmap, vcall, vmapFrom>>
  /\ UNCHANGED <<hubVars, emitVars>>
  /\ UNCHANGED regVars
  /\ UNCHANGED <<objVars, given, bufVars>>

\* moduleSpec.Set with one of the values tried.
ModuleSpecSet == \E value \in VmoduleValues : ModuleSpecSetTo(value)

\* moduleSpec.Set, lines 256-262: a bad entry returns the error before Lock.
ModuleSpecSetError ==
  /\ setter.pc = "idle"
  /\ \E value \in VmoduleValues : Parsed[value].fails
  /\ UNCHANGED vars

\* Mutant of SetVerbosityOff: the verbosity is left as it was.
SetVerbosityKept ==
  /\ setter.pc = "verbosityOff"
  /\ setter' = [setter EXCEPT !.pc = "filterLengthOff"]
  /\ UNCHANGED <<verbosity, filterLength, vmodule, vmap, mu, vcall, vmapFrom,
                 wiped>>
  /\ UNCHANGED <<hubVars, emitVars>>
  /\ UNCHANGED regVars
  /\ UNCHANGED <<objVars, given, bufVars>>

\* Line 410: logging.verbosity.set(0).
SetVerbosityOff ==
  /\ setter.pc = "verbosityOff"
  /\ verbosity' = 0
  /\ setter' = [setter EXCEPT !.pc = "filterLengthOff"]
  /\ UNCHANGED <<filterLength, vmodule, vmap, mu, vcall, vmapFrom, wiped>>
  /\ UNCHANGED <<hubVars, emitVars>>
  /\ UNCHANGED regVars
  /\ UNCHANGED <<objVars, given, bufVars>>

\* Line 412: logging.filterLength = 0.
SetFilterLengthOff ==
  /\ setter.pc = "filterLengthOff"
  /\ filterLength' = 0
  /\ setter' = [setter EXCEPT !.pc = "filter"]
  /\ UNCHANGED <<verbosity, vmodule, vmap, mu, vcall, vmapFrom, wiped>>
  /\ UNCHANGED <<hubVars, emitVars>>
  /\ UNCHANGED regVars
  /\ UNCHANGED <<objVars, given, bufVars>>

\* Lines 415-416: if setFilter, logging.vmodule.filter = filter.
SetFilter ==
  /\ setter.pc = "filter"
  /\ vmodule' = IF setter.setFilter THEN setter.filter ELSE vmodule
  /\ given' = IF setter.setFilter THEN setter.value ELSE given
  /\ setter' = [setter EXCEPT !.pc = "vmap"]
  /\ UNCHANGED <<verbosity, filterLength, vmap, mu, vcall, vmapFrom, wiped>>
  /\ UNCHANGED <<hubVars, emitVars>>
  /\ UNCHANGED regVars
  /\ UNCHANGED <<objVars, bufVars>>

\* Mutant of WipedVmap: the cache is wiped by every call of setVState.
WipedAlways(old, setFilter) == EmptyMap

\* Mutant of WipedVmap: the cache is kept when the filter changes.
KeptVmap(old, setFilter) == old

\* Line 417: the call-site cache after setVState(_, _, setFilter).
WipedVmap(old, setFilter) == IF setFilter THEN EmptyMap ELSE old

\* Line 417: if setFilter, logging.vmap = make(map[uintptr]Level).
SetVmap ==
  /\ setter.pc = "vmap"
  /\ vmap' = WipedVmap(vmap, setter.setFilter)
  /\ vmapFrom' = WipedVmap(vmapFrom, setter.setFilter)
  /\ wiped' = IF setter.setFilter
              THEN {pc \in DOMAIN vmap :
                      vmap[pc] # setVLevel(vmodule, SiteFile(pc))}
              ELSE wiped
  /\ setter' = [setter EXCEPT !.pc = "filterLengthOn"]
  /\ UNCHANGED <<verbosity, filterLength, vmodule, mu, vcall>>
  /\ UNCHANGED <<hubVars, emitVars>>
  /\ UNCHANGED regVars
  /\ UNCHANGED <<objVars, given, bufVars>>

\* Line 422: atomic.StoreInt32(&logging.filterLength, int32(len(filter))).
SetFilterLengthOn ==
  /\ setter.pc = "filterLengthOn"
  /\ filterLength' = Len(setter.filter)
  /\ setter' = [setter EXCEPT !.pc = "verbosityOn"]
  /\ UNCHANGED <<verbosity, vmodule, vmap, mu, vcall, vmapFrom, wiped>>
  /\ UNCHANGED <<hubVars, emitVars>>
  /\ UNCHANGED regVars
  /\ UNCHANGED <<objVars, given, bufVars>>

\* Line 423: logging.verbosity.set(verbosity); then the deferred
\* logging.mu.Unlock() of Level.Set and moduleSpec.Set.
SetVerbosityOn ==
  /\ setter.pc = "verbosityOn"
  /\ verbosity' = setter.verbosity
  /\ mu' = Free
  /\ setter' = IdleSetter
  /\ UNCHANGED <<filterLength, vmodule, vmap, vcall, vmapFrom, wiped>>
  /\ UNCHANGED <<hubVars, emitVars>>
  /\ UNCHANGED regVars
  /\ UNCHANGED <<objVars, given, bufVars>>

(***************************************************************************)
(* The event hub (glog_backend.go) and the log calls that feed it.         *)
(*                                                                         *)
(* RegisterBackend takes no lock; its comment leaves it to the caller to   *)
(* order the calls to it.  The action RegisterBackend is the call of such  *)
(* a caller, made in one step by one goroutine: eventForBackends and       *)
(* broadcastEvents then read the list either before or after the append.   *)
(* The actions RegCheck to RegReturn are the same call read by read and    *)
(* write by write, for callers and readers that nothing orders.            *)
(***************************************************************************)
IdleLogger == [pc |-> "idle", id |-> 0, fn |-> "", args |-> <<>>,
               call |-> Call("", <<>>), s |-> 0,
               buf |-> <<>>, mess |-> <<>>, data |-> <<>>, n |-> 0,
               code |-> 0]

NoBcast == [pc |-> "none", e |-> 0, snap |-> <<>>, i |-> 0]

\* The goroutines that call RegisterBackend step by step, and one at rest.
Registrars == {1, 2}

IdleReg == [pc |-> "idle", c |-> 0, new |-> <<>>, ptr |-> FALSE, len |-> FALSE]

\* What a read of a slice element past the end of its array gives: no
\* channel.
Junk == 0

\* The slice a goroutine reads from the two words of backendChans: the
\* array its pointer word leads to, cut or continued to its length word.
sliceOf(arr, n) ==
  [i \in 1 .. n |-> IF i <= Len(arr) THEN arr[i] ELSE Junk]

\* The package variables of glog_backend.go as RegisterBackend sees them at
\* program start.
InitReg ==
  /\ backendLen = 0
  /\ reg = [r \in Registrars |-> IdleReg]
  /\ tasks = 0
  /\ returned = {}

\* The goroutines that call Flush: 0 calls it on its own account (as
\* flushDaemon does), t is the one timeoutFlush starts for logger t.
Flushers == {0} \cup Loggers

\* The severities that have counters: severityStats holds nil for fatalLog.
HasStats(s) == s \in {infoLog, warningLog, errorLog}

\* The package variables of glog_backend.go, lines 5-8; no goroutine runs.
InitHub ==
  /\ messageChan = <<>>
  /\ backendChans = <<>>
  /\ chanBuf = [c \in {} |-> <<>>]
  /\ bcast = NoBcast
  /\ logger = [t \in Loggers |-> IdleLogger]
  /\ lines = 0
  /\ published = <<>>
  /\ received = [c \in {} |-> <<>>]
  /\ regSeen = [c \in {} |-> 0]
  /\ relayLost = {}
  /\ lost = [c \in {} |-> {}]

\* The zero value of traceLocation: no file, line 0.
NoTrace == [file |-> <<>>, line |-> 0]

\* traceLocation.isSet, lines 289-291.
isSet(t) == t.line > 0

\* traceLocation.match, lines 296-304: the line, and the file's base name.
traceMatch(t, file, line) ==
  IF t.line # line THEN FALSE
  ELSE LET i == LastIndex(file, "/")
       IN  t.file = (IF i >= 1 THEN SubSeq(file, i + 1, Len(file)) ELSE file)

\* runtime.Caller(3 + extraDepth), line 662: the file and line of the log
\* call of goroutine t.
Caller(t) == [file |-> <<"/", "s", "/", "a", ".", "g", "o">>, line |-> t]

\* The zero values of Stats and fatalNoStacks; nothing written, no Flush
\* under way, the process running.
InitEmit ==
  /\ sink = <<>>
  /\ stats = [s \in {infoLog, warningLog, errorLog} |->
                [lines |-> 0, bytes |-> 0]]
  /\ fatalNoStacks = 0
  /\ flush = [f \in Flushers |-> "none"]
  /\ exited = <<>>
  /\ eventOf = [e \in {} |-> 0]
  /\ calls = [e \in {} |-> 0]
  /\ traceLocation = NoTrace

\* os.Exit has not been called: the goroutines run.
Running == exited = <<>>

\* The events of a sequence of events.
Range(q) == {q[i] : i \in 1 .. Len(q)}

\* The number of published events whose fan-out has begun: those that have
\* left messageChan.
NumFanned == Len(published) - Len(messageChan)

(***************************************************************************)
(* A log call: Info, Warning, Error, Fatal (print) and Exit, lines         *)
(* 1106-1111; printWithDepth, lines 610-627; outputWithDepth, lines        *)
(* 659-688; timeoutFlush, lines 694-705.                                   *)
(***************************************************************************)
\* Lines 1109 and 611-621: Exit stores fatalNoStacks; the arguments are
\* filtered and formatted into a buffer, the message is copied.
LogCall(t, call) ==
  /\ Running
  /\ logger[t].pc = "idle"
  /\ lines + Cardinality({u \in Loggers : logger[u].pc \in {"lock", "write"}})
       < MaxEvents
  /\ LET s    == severityOf(call.fn)
         e    == entry(call)
         args == filterData(e.args)
         buf  == message(call.fn, s, e.format, formatErrors(args.realArgs))
     IN  logger' = [logger EXCEPT ![t] =
           [pc |-> "lock", id |-> 0, fn |-> call.fn, args |-> call.args,
            call |-> call, s |-> s, buf |-> withNewline(buf), mess |-> buf,
            data |-> args.dataArgs, n |-> 0, code |-> 0]]
  /\ fatalNoStacks' = IF call.fn = "Exit" THEN 1 ELSE fatalNoStacks
  /\ UNCHANGED <<messageChan, backendChans, chanBuf, bcast, lines,
                 published, received, regSeen, relayLost, lost>>
  /\ UNCHANGED <<sink, stats, flush, exited, eventOf, calls,
                 traceLocation>>
  /\ UNCHANGED filterVars
  /\ UNCHANGED regVars
  /\ UNCHANGED <<objVars, given, bufVars>>

\* Mutant of guardHolds: every call is let through.
guardAlways(call) == TRUE

\* Lines 844, 860 and 876 (if v) and 934, 972, 999, 1035 and 1059
\* (if err != nil): whether the entry point goes on to log.
guardHolds(call) ==
  CASE call.fn \in {"V.Info", "V.Infoln", "V.Infof"} -> call.v
    [] call.fn \in {"WarningIf", "WarningfIf", "ErrorIf", "ErrorfIf",
                    "FatalIf"} -> call.err # NilError
    [] OTHER -> TRUE

\* A call of an entry point that has a guard: it logs as the others do when
\* the guard holds, and returns at once when not.
GuardedCall(t, call) ==
  IF guardHolds(call) THEN LogCall(t, call)
  ELSE /\ Running
       /\ logger[t].pc = "idle"
       /\ skipped' = call
       /\ UNCHANGED heap
       /\ UNCHANGED <<filterVars, hubVars, emitVars, regVars>>
       /\ UNCHANGED <<given, bufVars>>

\* Line 660: l.mu.Lock().
LogLock(t) ==
  /\ Running
  /\ logger[t].pc = "lock"
  /\ MayLock(<<"log", t>>)
  /\ mu' = <<"log", t>>
  /\ logger' = [logger EXCEPT ![t].pc = "write"]
  /\ UNCHANGED <<verbosity, filterLength, vmodule, vmap, vcall, setter,
                 vmapFrom, wiped>>
  /\ UNCHANGED <<messageChan, backendChans, chanBuf, bcast, lines,
                 published, received, regSeen, relayLost, lost>>
  /\ UNCHANGED emitVars
  /\ UNCHANGED regVars
  /\ UNCHANGED <<objVars, given, bufVars>>

\* Mutant of muAfterWrite: the lock is kept past the write.
muKeptAfterWrite(t) == <<"log", t>>

\* Lines 681-682: logging.mu once a call below fatalLog has written its line.
muAfterWrite(t) == Free

\* Mutant of withTrace: the stacks are added only while no line in the sink
\* has them.
withTraceOnce(buf, trace, caller) ==
  IF /\ isSet(trace) /\ traceMatch(trace, caller.file, caller.line)
     /\ \A i \in 1 .. Len(sink) : "stacks" \notin Range(sink[i].bytes)
  THEN buf \o <<"stacks">> ELSE buf

\* Lines 661-666: the stacks are added to the buffer of a call made at the
\* trace location.
withTrace(buf, trace, caller) ==
  IF isSet(trace) /\ traceMatch(trace, caller.file, caller.line)
  THEN buf \o <<"stacks">> ELSE buf

\* Mutant of afterWrite: a call whose write failed leaves the counters out.
afterWriteNoStats(s, err) ==
  IF s = fatalLog THEN "fatal" ELSE IF err THEN "publish" ELSE "stats"

\* Lines 668-669: n, _ := output.Write(data) drops the error; where the call
\* goes next depends on the severity alone.
afterWrite(s, err) == IF s = fatalLog THEN "fatal" ELSE "stats"

\* Lines 661-669 and 681-682: the trace location is looked at;
\* output.Write(data) returns either len(data) and no error, or an error and
\* the number k of bytes it did write; below fatalLog, putBuffer and
\* l.mu.Unlock().
outputWrite(t, err, k) ==
  /\ Running
  /\ logger[t].pc = "write"
  /\ lines' = lines + 1
  /\ calls' = MapPut(calls, lines + 1, logger[t].call)
  /\ LET data == withTrace(logger[t].buf, traceLocation, Caller(t))
         n    == IF err THEN k ELSE Len(data)
         next == afterWrite(logger[t].s, err)
         me   == [logger[t] EXCEPT !.id = lines + 1, !.buf = data, !.n = n,
                                   !.pc = next]
     IN  /\ sink' = Append(sink, [id |-> lines + 1,
                                  kind |-> IF err THEN "failed" ELSE "line",
                                  bytes |-> SubSeq(data, 1, n)])
         /\ mu' = IF next = "fatal" THEN mu ELSE muAfterWrite(t)
         /\ logger' = [logger EXCEPT ![t] = me]
  /\ UNCHANGED <<verbosity, filterLength, vmodule, vmap, vcall, setter,
                 vmapFrom, wiped>>
  /\ UNCHANGED <<messageChan, backendChans, chanBuf, bcast, published,
                 received, regSeen, relayLost, lost>>
  /\ UNCHANGED <<stats, fatalNoStacks, flush, exited, eventOf, traceLocation>>
  /\ UNCHANGED regVars
  /\ UNCHANGED <<objVars, given, bufVars>>

\* Line 668 when the sink takes the whole line.
LogWrite(t) == outputWrite(t, FALSE, 0)

\* The numbers of bytes a failing write reports as written.
ShortWrites == {0, 1}

\* Line 668 when the sink's Write returns an error.
LogWriteFail(t) == \E k \in ShortWrites : outputWrite(t, TRUE, k)

\* Line 671: whether the fatal path leaves the stacks out.
noStacks(flag) == flag > 0

\* Lines 669-679: at fatalLog, the stacks are written unless fatalNoStacks is
\* set, the lock is released and the exit status chosen.
LogFatal(t) ==
  /\ Running
  /\ logger[t].pc = "fatal"
  /\ IF noStacks(fatalNoStacks)
     THEN /\ sink' = sink
          /\ logger' = [logger EXCEPT ![t].pc = "timeoutFlush", ![t].code = 1]
     ELSE /\ sink' = Append(sink, [id |-> logger[t].id, kind |-> "stacks",
                                   bytes |-> <<"stacks">>])
          /\ logger' = [logger EXCEPT ![t].pc = "timeoutFlush",
                                      ![t].code = 255]
  /\ mu' = Free
  /\ UNCHANGED <<verbosity, filterLength, vmodule, vmap, vcall, setter,
                 vmapFrom, wiped>>
  /\ UNCHANGED <<messageChan, backendChans, chanBuf, bcast, lines, published,
                 received, regSeen, relayLost, lost>>
  /\ UNCHANGED <<stats, fatalNoStacks, flush, exited, eventOf, calls,
                 traceLocation>>
  /\ UNCHANGED regVars
  /\ UNCHANGED <<objVars, given, bufVars>>

\* timeoutFlush, lines 695-699: a goroutine is started that calls Flush.
LogFlushStart(t) ==
  /\ Running
  /\ logger[t].pc = "timeoutFlush"
  /\ flush' = [flush EXCEPT ![t] = "lock"]
  /\ logger' = [logger EXCEPT ![t].pc = "select"]
  /\ UNCHANGED <<messageChan, backendChans, chanBuf, bcast, lines, published,
                 received, regSeen, relayLost, lost>>
  /\ UNCHANGED <<sink, stats, fatalNoStacks, exited, eventOf, calls,
                 traceLocation>>
  /\ UNCHANGED filterVars
  /\ UNCHANGED regVars
  /\ UNCHANGED <<objVars, given, bufVars>>

\* timeoutFlush, line 701: case <-done.
LogFlushDone(t) ==
  /\ Running
  /\ logger[t].pc = "select"
  /\ flush[t] = "done"
  /\ logger' = [logger EXCEPT ![t].pc = "exit"]
  /\ UNCHANGED <<messageChan, backendChans, chanBuf, bcast, lines, published,
                 received, regSeen, relayLost, lost>>
  /\ UNCHANGED emitVars
  /\ UNCHANGED filterVars
  /\ UNCHANGED regVars
  /\ UNCHANGED <<objVars, given, bufVars>>

\* timeoutFlush, lines 702-703: case <-time.After(timeout).
LogFlushTimeout(t) ==
  /\ Running
  /\ logger[t].pc = "select"
  /\ logger' = [logger EXCEPT ![t].pc = "exit"]
  /\ UNCHANGED <<messageChan, backendChans, chanBuf, bcast, lines, published,
                 received, regSeen, relayLost, lost>>
  /\ UNCHANGED emitVars
  /\ UNCHANGED filterVars
  /\ UNCHANGED regVars
  /\ UNCHANGED <<objVars, given, bufVars>>

\* Lines 674 and 679: os.Exit(1), os.Exit(255).
LogExit(t) ==
  /\ Running
  /\ logger[t].pc = "exit"
  /\ exited' = [status |-> logger[t].code, by |-> t]
  /\ UNCHANGED hubVars
  /\ UNCHANGED <<sink, stats, fatalNoStacks, flush, eventOf, calls,
                 traceLocation>>
  /\ UNCHANGED filterVars
  /\ UNCHANGED regVars
  /\ UNCHANGED <<objVars, given, bufVars>>

\* Mutant of addStats: every line is counted as an INFO line.
addStatsInfo(st, s, n) ==
  [st EXCEPT ![infoLog] = [lines |-> @.lines + 1, bytes |-> @.bytes + n]]

\* Lines 683-686: the counters after a line of severity s and n bytes.
addStats(st, s, n) ==
  IF HasStats(s)
  THEN [st EXCEPT ![s] = [lines |-> @.lines + 1, bytes |-> @.bytes + n]]
  ELSE st

\* Lines 683-687: 1 and len(data) are added to the severity's counters;
\* return n.
LogStats(t) ==
  /\ Running
  /\ logger[t].pc = "stats"
  /\ stats' = addStats(stats, logger[t].s, Len(logger[t].buf))
  /\ logger' = [logger EXCEPT ![t].pc = "publish"]
  /\ UNCHANGED <<messageChan, backendChans, chanBuf, bcast, lines, published,
                 received, regSeen, relayLost, lost>>
  /\ UNCHANGED <<sink, fatalNoStacks, flush, exited, eventOf, calls,
                 traceLocation>>
  /\ UNCHANGED filterVars
  /\ UNCHANGED regVars
  /\ UNCHANGED <<objVars, given, bufVars>>

\* Mutant of sendProceeds: a plain send, which waits while the queue is full.
sendWaits(q) == Len(q) < MessageChanCap

\* Lines 96-99: the select has a default case, so the send never waits.
sendProceeds(q) == TRUE

\* Lines 96-99: select { case messageChan <- e: default: }.
selectSend(q, e) == IF Len(q) < MessageChanCap THEN Append(q, e) ELSE q

\* Mutant of eventForBackends: the event is sent whether or not a backend
\* is registered.
eventForBackendsAlways(q, chans, e) == selectSend(q, e)

\* eventForBackends, lines 94-101: messageChan after the call.
eventForBackends(q, chans, e) ==
  IF Len(chans) > 0 THEN selectSend(q, e) ELSE q

\* Lines 624-626 and 649-651: for printf the format is added to the data;
\* NewEvent, eventForBackends(e), return.
Publish(t) ==
  /\ Running
  /\ logger[t].pc = "publish"
  /\ sendProceeds(messageChan)
  /\ eventOf' = MapPut(eventOf, logger[t].id,
                       NewEvent(logger[t].s, logger[t].mess,
                                withFormat(logger[t].fn,
                                           entry(logger[t].call).format,
                                           logger[t].data)))
  /\ messageChan' = eventForBackends(messageChan,
                                     sliceOf(backendChans, backendLen),
                                     logger[t].id)
  /\ published' = IF messageChan' # messageChan
                  THEN Append(published, logger[t].id) ELSE published
  /\ relayLost' = IF backendLen > 0
                     /\ Len(messageChan) >= MessageChanCap
                  THEN relayLost \cup {logger[t].id} ELSE relayLost
  /\ logger' = [logger EXCEPT ![t] = IdleLogger]
  /\ UNCHANGED <<backendChans, chanBuf, bcast, lines, received, regSeen,
                 lost>>
  /\ UNCHANGED <<sink, stats, fatalNoStacks, flush, exited, calls,
                 traceLocation>>
  /\ UNCHANGED filterVars
  /\ UNCHANGED regVars
  /\ UNCHANGED <<objVars, given, bufVars>>

(***************************************************************************)
(* Flush, lines 364-366, and lockAndFlushAll, lines 755-759.               *)
(***************************************************************************)
\* A goroutine calls Flush on its own account.
FlushCall ==
  /\ Running
  /\ flush[0] = "none"
  /\ flush' = [flush EXCEPT ![0] = "lock"]
  /\ UNCHANGED hubVars
  /\ UNCHANGED <<sink, stats, fatalNoStacks, exited, eventOf, calls,
                 traceLocation>>
  /\ UNCHANGED filterVars
  /\ UNCHANGED regVars
  /\ UNCHANGED <<objVars, given, bufVars>>

\* Line 756: l.mu.Lock().
FlushLock(f) ==
  /\ Running
  /\ flush[f] = "lock"
  /\ MayLock(<<"flush", f>>)
  /\ mu' = <<"flush", f>>
  /\ flush' = [flush EXCEPT ![f] = "flushing"]
  /\ UNCHANGED <<verbosity, filterLength, vmodule, vmap, vcall, setter,
                 vmapFrom, wiped>>
  /\ UNCHANGED hubVars
  /\ UNCHANGED <<sink, stats, fatalNoStacks, exited, eventOf, calls,
                 traceLocation>>
  /\ UNCHANGED regVars
  /\ UNCHANGED <<objVars, given, bufVars>>

\* Line 695: done := make(chan bool, 1).
DoneCap == 1

\* Mutant of doneSendProceeds: done has no buffer, so the send needs the
\* receiver.
doneSendUnbuffered(pending, receiving) == receiving

\* Line 698: a send on done goes through when the channel holds fewer
\* values than its capacity or the receiver is waiting in the select.
doneSendProceeds(pending, receiving) == pending < DoneCap \/ receiving

\* Lines 757-758: output.Flush() returns; l.mu.Unlock(); Flush returns.  The
\* goroutine of timeoutFlush then does the only send on done (line 698), or
\* is left waiting at it ("report") when the send cannot go through.
FlushAll(f) ==
  /\ Running
  /\ flush[f] = "flushing"
  /\ mu' = Free
  /\ flush' = [flush EXCEPT ![f] =
               IF f = 0 THEN "none"
               ELSE IF doneSendProceeds(0, logger[f].pc = "select")
               THEN "done" ELSE "report"]
  /\ UNCHANGED <<verbosity, filterLength, vmodule, vmap, vcall, setter,
                 vmapFrom, wiped>>
  /\ UNCHANGED hubVars
  /\ UNCHANGED <<sink, stats, fatalNoStacks, exited, eventOf, calls,
                 traceLocation>>
  /\ UNCHANGED regVars
  /\ UNCHANGED <<objVars, given, bufVars>>

\* Line 765: output.Flush() does not return (the sink's Flush may wait for
\* ever); the lock stays held.
FlushHang(f) ==
  /\ Running
  /\ flush[f] = "flushing"
  /\ flush' = [flush EXCEPT ![f] = "hung"]
  /\ UNCHANGED hubVars
  /\ UNCHANGED <<sink, stats, fatalNoStacks, exited, eventOf, calls,
                 traceLocation>>
  /\ UNCHANGED filterVars
  /\ UNCHANGED regVars
  /\ UNCHANGED <<objVars, given, bufVars>>

(***************************************************************************)
(* traceLocation.Set, lines 323-349, and the error return of Level.Set,    *)
(* lines 188-191.  A flag value is the sequence of its characters.         *)
(***************************************************************************)
Digits == <<"0", "1", "2", "3", "4", "5", "6", "7", "8", "9">>

DigitOf(c) == (CHOOSE i \in 1 .. Len(Digits) : Digits[i] = c) - 1

RECURSIVE DecVal(_)
DecVal(s) ==
  IF s = <<>> THEN 0
  ELSE 10 * DecVal(SubSeq(s, 1, Len(s) - 1)) + DigitOf(s[Len(s)])

\* strconv.Atoi: an optional sign, then one decimal digit or more.
Atoi(s) ==
  LET signed == s # <<>> /\ s[1] \in {"-", "+"}
      body   == IF signed THEN Tail(s) ELSE s
      ok     == body # <<>> /\ \A i \in 1 .. Len(body) : body[i] \in Range(Digits)
  IN  [ok |-> ok,
       v  |-> IF ~ok THEN 0
              ELSE IF signed /\ s[1] = "-" THEN 0 - DecVal(body)
              ELSE DecVal(body)]

\* strings.Split(s, sep) for a one-character separator.
RECURSIVE Split(_, _)
Split(s, sep) ==
  LET at == {i \in 1 .. Len(s) : s[i] = sep}
  IN  IF at = {} THEN <<s>>
      ELSE LET i == CHOOSE k \in at : \A j \in at : k <= j
           IN  <<SubSeq(s, 1, i - 1)>> \o Split(SubSeq(s, i + 1, Len(s)), sep)

\* The -log_backtrace_at values tried.
TraceValues ==
  { <<>>,
    <<"a", ".", "g", "o", ":", "1">>,
    <<"b", ".", "g", "o", ":", "1", "2">>,
    <<"a", ".", "g", "o">>,
    <<"a", ":", "3">>,
    <<"a", ".", "g", "o", ":", "0">>,
    <<"a", ".", "g", "o", ":", "-", "1">>,
    <<"a", ".", "g", "o", ":", "x">>,
    <<"a", ".", "g", "o", ":", "1", ":", "2">> }

\* The -v values tried that strconv.Atoi refuses.
BadLevelValues == { <<>>, <<"x">>, <<"1", "x">> }

\* Lines 324-328: the empty value unsets the location; the function goes on.
traceUnset(value, old) == IF value = <<>> THEN NoTrace ELSE old

\* traceLocation.Set, lines 323-349: the location after the call and the
\* error returned.
traceSet(value, old) ==
  LET unset  == traceUnset(value, old)
      fields == Split(value, ":")
  IN  IF Len(fields) # 2
      THEN [loc |-> unset, err |-> "errTraceSyntax"]
      ELSE IF "." \notin Range(fields[1])
      THEN [loc |-> unset, err |-> "errTraceSyntax"]
      ELSE IF ~Atoi(fields[2]).ok
      THEN [loc |-> unset, err |-> "errTraceSyntax"]
      ELSE IF Atoi(fields[2]).v <= 0
      THEN [loc |-> unset, err |-> "negative or zero value for level"]
      ELSE [loc |-> [file |-> fields[1], line |-> Atoi(fields[2]).v],
            err |-> "nil"]

\* traceLocation.Set(value).  The call that succeeds takes logging.mu for
\* its assignments (lines 344-347); the others never take it.
TraceLocationSet(value) ==
  /\ Running
  /\ traceSet(value, traceLocation).err = "nil" => MayLock(<<"Set">>)
  /\ traceLocation' = traceSet(value, traceLocation).loc
  /\ UNCHANGED <<filterVars, hubVars>>
  /\ UNCHANGED <<sink, stats, fatalNoStacks, flush, exited, eventOf, calls>>
  /\ UNCHANGED regVars
  /\ UNCHANGED <<objVars, given, bufVars>>

\* Level.Set, lines 188-191: strconv.Atoi refuses the value and the error
\* is returned before Lock.
LevelSetError ==
  /\ \E value \in BadLevelValues : ~Atoi(value).ok
  /\ UNCHANGED vars

(***************************************************************************)
(* RegisterBackend, lines 82-90.                                           *)
(***************************************************************************)
\* Lines 83-89: if len(backendChans) == 0 { go broadcastEvents() };
\* c := make(chan Event, 100); backendChans = append(backendChans, c).
\* (The goroutine started at line 84 waits at line 104 until an event is
\* sent, and none is while the list is empty: starting it and appending are
\* one step to every other goroutine.)
RegisterBackend ==
  /\ \A r \in Registrars : reg[r].pc = "idle"
  /\ Len(backendChans) < Cardinality(Backends)
  /\ bcast' = IF Len(backendChans) = 0
              THEN [NoBcast EXCEPT !.pc = "recv"] ELSE bcast
  /\ LET c == Len(backendChans) + 1
     IN  /\ backendChans' = Append(backendChans, c)
         /\ chanBuf' = MapPut(chanBuf, c, <<>>)
         /\ received' = MapPut(received, c, <<>>)
         /\ lost' = MapPut(lost, c, {})
         /\ regSeen' = MapPut(regSeen, c,
                              [pub |-> Len(published), fan |-> NumFanned])
  /\ UNCHANGED <<messageChan, logger, lines, published, relayLost>>
  /\ UNCHANGED <<filterVars, emitVars>>
  /\ backendLen' = Len(backendChans) + 1
  /\ tasks' = IF Len(backendChans) = 0 THEN tasks + 1 ELSE tasks
  /\ returned' = returned \cup {Len(backendChans) + 1}
  /\ reg' = reg
  /\ UNCHANGED <<objVars, given, bufVars>>

(***************************************************************************)
(* RegisterBackend again, for callers that do not order their calls: one   *)
(* action per read and write of the package variables.  The slice          *)
(* backendChans is a pointer word and a length word (its capacity plays no *)
(* part: every append of a run finds the array full and makes a new one);  *)
(* the assignment of line 88 stores the two words one after the other, in  *)
(* an order the compiler chooses.                                          *)
(***************************************************************************)
\* Lines 83-85: len(backendChans) is read; if it is 0, go broadcastEvents().
\* (Of the dispatch goroutines started, the first is followed.)
RegCheck(r) ==
  /\ reg[r].pc = "idle"
  /\ Cardinality(DOMAIN chanBuf)
       + Cardinality({q \in Registrars : reg[q].pc = "append"})
       < Cardinality(Backends)
  /\ tasks' = IF backendLen = 0 THEN tasks + 1 ELSE tasks
  /\ bcast' = IF backendLen = 0 /\ bcast.pc = "none"
              THEN [NoBcast EXCEPT !.pc = "recv"] ELSE bcast
  /\ reg' = [reg EXCEPT ![r].pc = "append"]
  /\ UNCHANGED <<messageChan, backendChans, chanBuf, logger, lines,
                 published, received, regSeen, relayLost, lost>>
  /\ UNCHANGED <<backendLen, returned>>
  /\ UNCHANGED <<filterVars, emitVars>>
  /\ UNCHANGED <<objVars, given, bufVars>>

\* Lines 87-88: c := make(chan Event, 100); append reads backendChans and
\* builds the longer slice.
RegAppend(r) ==
  /\ reg[r].pc = "append"
  /\ LET c == Cardinality(DOMAIN chanBuf) + 1
     IN  /\ reg' = [reg EXCEPT ![r] =
                     [pc |-> "store", c |-> c,
                      new |-> Append(sliceOf(backendChans, backendLen), c),
                      ptr |-> FALSE, len |-> FALSE]]
         /\ chanBuf' = MapPut(chanBuf, c, <<>>)
         /\ received' = MapPut(received, c, <<>>)
         /\ lost' = MapPut(lost, c, {})
         /\ regSeen' = MapPut(regSeen, c,
                              [pub |-> Len(published), fan |-> NumFanned])
  /\ UNCHANGED <<messageChan, backendChans, bcast, logger, lines, published,
                 relayLost>>
  /\ UNCHANGED <<backendLen, tasks, returned>>
  /\ UNCHANGED <<filterVars, emitVars>>
  /\ UNCHANGED <<objVars, given, bufVars>>

\* Line 88: the pointer word of backendChans is stored.
RegStorePtr(r) ==
  /\ reg[r].pc = "store"
  /\ ~reg[r].ptr
  /\ backendChans' = reg[r].new
  /\ reg' = [reg EXCEPT ![r].ptr = TRUE]
  /\ UNCHANGED <<messageChan, chanBuf, bcast, logger, lines, published,
                 received, regSeen, relayLost, lost>>
  /\ UNCHANGED <<backendLen, tasks, returned>>
  /\ UNCHANGED <<filterVars, emitVars>>
  /\ UNCHANGED <<objVars, given, bufVars>>

\* Line 88: the length word of backendChans is stored.
RegStoreLen(r) ==
  /\ reg[r].pc = "store"
  /\ ~reg[r].len
  /\ backendLen' = Len(reg[r].new)
  /\ reg' = [reg EXCEPT ![r].len = TRUE]
  /\ UNCHANGED hubVars
  /\ UNCHANGED <<tasks, returned>>
  /\ UNCHANGED <<filterVars, emitVars>>
  /\ UNCHANGED <<objVars, given, bufVars>>

\* Line 89: return c.
RegReturn(r) ==
  /\ reg[r].pc = "store"
  /\ reg[r].ptr /\ reg[r].len
  /\ returned' = returned \cup {reg[r].c}
  /\ reg' = [reg EXCEPT ![r] = IdleReg]
  /\ UNCHANGED hubVars
  /\ UNCHANGED <<backendLen, tasks>>
  /\ UNCHANGED <<filterVars, emitVars>>
  /\ UNCHANGED <<objVars, given, bufVars>>

(***************************************************************************)
(* broadcastEvents, lines 103-112.                                         *)
(***************************************************************************)
\* Mutant of rangeList: the loop reads backendChans anew at every pass.
liveList(snap, live) == live

\* Mutant of nextIndex: the loop skips a channel.
skipIndex(i) == i + 2

\* Line 105: the list a range loop walks is the value its expression had when
\* the loop began; the list read now plays no part.
rangeList(snap, live) == snap

\* Line 105: the loop goes on to the next channel.
nextIndex(i) == i + 1

\* Lines 104-105: e is received from messageChan and the range expression
\* backendChans is evaluated.  (An event is on messageChan only once a
\* backend is registered, so the list is not empty.)
BcastRecv ==
  /\ bcast.pc = "recv"
  /\ messageChan # <<>>
  /\ bcast' = [pc |-> "send", e |-> Head(messageChan),
               snap |-> sliceOf(backendChans, backendLen), i |-> 1]
  /\ messageChan' = Tail(messageChan)
  /\ UNCHANGED <<backendChans, chanBuf, logger, lines, published,
                 received, regSeen, relayLost, lost>>
  /\ UNCHANGED <<filterVars, emitVars>>
  /\ UNCHANGED regVars
  /\ UNCHANGED <<objVars, given, bufVars>>

\* Mutant of chanSend: the event goes to the front of the buffer.
chanSendFront(buf, e) ==
  IF Len(buf) < BackendChanCap THEN <<e>> \o buf ELSE buf

\* Lines 106-109: select { case c <- e: default: }, a channel of capacity 100.
chanSend(buf, e) == IF Len(buf) < BackendChanCap THEN Append(buf, e) ELSE buf

\* Lines 105-110: one pass of the loop body, for the channel at index i.
BcastSend ==
  /\ bcast.pc = "send"
  /\ rangeList(bcast.snap, backendChans)[bcast.i] # Junk
  /\ LET list == rangeList(bcast.snap, backendChans)
         c    == list[bcast.i]
         j    == nextIndex(bcast.i)
     IN  /\ chanBuf' = [chanBuf EXCEPT ![c] = chanSend(@, bcast.e)]
         /\ lost' = IF Len(chanBuf[c]) >= BackendChanCap
                    THEN [lost EXCEPT ![c] = @ \cup {bcast.e}] ELSE lost
         /\ bcast' = IF j > Len(list)
                     THEN [NoBcast EXCEPT !.pc = "recv"]
                     ELSE [bcast EXCEPT !.i = j]
  /\ UNCHANGED <<messageChan, backendChans, logger, lines, published,
                 received, regSeen, relayLost>>
  /\ UNCHANGED <<filterVars, emitVars>>
  /\ UNCHANGED regVars
  /\ UNCHANGED <<objVars, given, bufVars>>

\* Lines 105-109 when the element read lies past the end of the array: the
\* send on what was read either is not taken (as for a nil channel, the
\* select goes to default) or faults, and the runtime ends the process
\* with status 2.
BcastJunk ==
  /\ bcast.pc = "send"
  /\ rangeList(bcast.snap, backendChans)[bcast.i] = Junk
  /\ \/ /\ bcast' = IF nextIndex(bcast.i) > Len(bcast.snap)
                     THEN [NoBcast EXCEPT !.pc = "recv"]
                     ELSE [bcast EXCEPT !.i = nextIndex(bcast.i)]
        /\ exited' = exited
     \/ /\ exited' = [status |-> 2, by |-> 0]
        /\ bcast' = bcast
  /\ UNCHANGED <<messageChan, backendChans, chanBuf, logger, lines,
                 published, received, regSeen, relayLost, lost>>
  /\ UNCHANGED <<sink, stats, fatalNoStacks, flush, eventOf, calls,
                 traceLocation>>
  /\ UNCHANGED <<filterVars, regVars>>
  /\ UNCHANGED <<objVars, given, bufVars>>

\* The owner of channel c receives from it (for e := range comm, as in
\* TestBackends, lines 61-65).
Receive(c) ==
  /\ c \in DOMAIN chanBuf
  /\ chanBuf[c] # <<>>
  /\ received' = [received EXCEPT ![c] = Append(@, Head(chanBuf[c]))]
  /\ chanBuf' = [chanBuf EXCEPT ![c] = Tail(@)]
  /\ UNCHANGED <<messageChan, backendChans, bcast, logger, lines,
                 published, regSeen, relayLost, lost>>
  /\ UNCHANGED <<filterVars, emitVars>>
  /\ UNCHANGED regVars
  /\ UNCHANGED <<objVars, given, bufVars>>

\* No Logger has been made, no guarded call has returned at its guard.
InitObj ==
  /\ heap = <<>>
  /\ skipped = Call("", <<>>)

\* No buffer has been allocated: the free list is nil.
NoBuffer == 0

\* A goroutine's log call as far as its buffer goes: where it is, the
\* address of its buffer, the text it formats, its copy of the message and
\* the number of its line.
IdleBuf == [pc |-> "idle", b |-> NoBuffer, text |-> <<>>, mess |-> <<>>,
            id |-> 0]

InitBuf ==
  /\ freeList = NoBuffer
  /\ buffers = <<>>
  /\ bufcall = [t \in Loggers |-> IdleBuf]

Init ==
  /\ InitFilter /\ InitHub /\ InitEmit /\ InitReg /\ InitObj /\ InitBuf
  /\ given = <<>>

NextHub ==
  \/ \E t \in Loggers : LogCall(t, HubCall)
  \/ \E t \in Loggers : LogLock(t)
  \/ \E t \in Loggers : LogWrite(t)
  \/ \E t \in Loggers : LogStats(t)
  \/ \E t \in Loggers : Publish(t)
  \/ RegisterBackend
  \/ BcastRecv
  \/ BcastSend
  \/ \E c \in Backends : Receive(c)

SpecHub == Init /\ [][NextHub]_vars


NextFilter ==
  \/ \E t \in VThreads : VCall(t)
  \/ \E t \in VThreads : VLoadVerbosity(t)
  \/ \E t \in VThreads : VLoadFilterLength(t)
  \/ \E t \in VThreads : VLock(t)
  \/ \E t \in VThreads : VLookup(t)
  \/ \E t \in VThreads : VSetV(t)
  \/ \E t \in VThreads : VUnlock(t)
  \/ \E t \in VThreads : VDone(t)
  \/ LevelSet
  \/ ModuleSpecSet
  \/ ModuleSpecSetError
  \/ SetVerbosityOff
  \/ SetFilterLengthOff
  \/ SetFilter
  \/ SetVmap
  \/ SetFilterLengthOn
  \/ SetVerbosityOn

SpecFilter == Init /\ [][NextFilter]_vars

(***************************************************************************)
(* The same goroutines when the caller keeps configuration changes and V   *)
(* calls apart: a Set starts only while no V call is in flight or holds an *)
(* answer, a V call starts only while no Set is in progress.               *)
(***************************************************************************)
NoVInFlight == \A t \in VThreads : vcall[t].pc = "idle"

NextFilterSeq ==
  \/ \E t \in VThreads : setter.pc = "idle" /\ VCall(t)
  \/ \E t \in VThreads : VLoadVerbosity(t)
  \/ \E t \in VThreads : VLoadFilterLength(t)
  \/ \E t \in VThreads : VLock(t)
  \/ \E t \in VThreads : VLookup(t)
  \/ \E t \in VThreads : VSetV(t)
  \/ \E t \in VThreads : VUnlock(t)
  \/ \E t \in VThreads : VDone(t)
  \/ NoVInFlight /\ LevelSet
  \/ NoVInFlight /\ ModuleSpecSet
  \/ ModuleSpecSetError
  \/ SetVerbosityOff
  \/ SetFilterLengthOff
  \/ SetFilter
  \/ SetVmap
  \/ SetFilterLengthOn
  \/ SetVerbosityOn

SpecFilterSeq == Init /\ [][NextFilterSeq]_vars

(***************************************************************************)
(* One change of the configuration under way while V is called: the        *)
(* program was started with -v=1 and no -vmodule (flag.Parse has called    *)
(* Level.Set, and setVState has returned, before any goroutine calls V);   *)
(* Set calls are made while that configuration is in place, so at most one *)
(* of them changes it, and V calls start and end at any time.              *)
(***************************************************************************)
StartVerbosity == 1

InitLin ==
  /\ verbosity = StartVerbosity
  /\ filterLength = 0
  /\ vmodule = <<>>
  /\ vmap = EmptyMap
  /\ mu = Free
  /\ vcall = [t \in VThreads |-> IdleV]
  /\ setter = IdleSetter
  /\ vmapFrom = EmptyMap
  /\ wiped = {}
  /\ InitHub /\ InitEmit /\ InitReg /\ InitObj /\ InitBuf
  /\ given = <<>>

AtStart == verbosity = StartVerbosity /\ vmodule = <<>>

NextLin ==
  \/ \E t \in VThreads : VCall(t)
  \/ \E t \in VThreads : VLoadVerbosity(t)
  \/ \E t \in VThreads : VLoadFilterLength(t)
  \/ \E t \in VThreads : VLock(t)
  \/ \E t \in VThreads : VLookup(t)
  \/ \E t \in VThreads : VSetV(t)
  \/ \E t \in VThreads : VUnlock(t)
  \/ \E t \in VThreads : VDone(t)
  \/ AtStart /\ LevelSet
  \/ AtStart /\ ModuleSpecSet
  \/ SetVerbosityOff
  \/ SetFilterLengthOff
  \/ SetFilter
  \/ SetVmap
  \/ SetFilterLengthOn
  \/ SetVerbosityOn

SpecLin == InitLin /\ [][NextLin]_vars

(***************************************************************************)
(* The configuration: the flags -v, -vmodule and -log_backtrace_at are set *)
(* with good and bad values, between V calls.                              *)
(***************************************************************************)
NextConfig ==
  \/ NextFilterSeq
  \/ LevelSetError
  \/ \E value \in TraceValues : TraceLocationSet(value)

SpecConfig == Init /\ [][NextConfig]_vars

(***************************************************************************)
(* The trace location: -log_backtrace_at is set, to good and bad values    *)
(* and to the empty one, before the first line is written; goroutines then *)
(* log, that of number t from line t of /s/a.go.                           *)
(***************************************************************************)
NextTrace ==
  \/ \E value \in TraceValues : lines = 0 /\ TraceLocationSet(value)
  \/ \E t \in Loggers : LogCall(t, HubCall)
  \/ \E t \in Loggers : LogLock(t)
  \/ \E t \in Loggers : LogWrite(t)
  \/ \E t \in Loggers : LogStats(t)
  \/ \E t \in Loggers : Publish(t)

SpecTrace == Init /\ [][NextTrace]_vars

(***************************************************************************)
(* The emission pipeline alone: goroutines log below fatalLog, another     *)
(* calls Flush; no backend is registered.                                  *)
(***************************************************************************)
EmitCalls ==
  { Call("Info", <<Plain("a")>>),
    Call("Warning", <<Plain("a"), Plain("b")>>),
    Call("Error", <<Plain("a")>>) }

NextEmit ==
  \/ \E t \in Loggers : \E call \in EmitCalls : LogCall(t, call)
  \/ \E t \in Loggers : LogLock(t)
  \/ \E t \in Loggers : LogWrite(t)
  \/ \E t \in Loggers : LogStats(t)
  \/ \E t \in Loggers : Publish(t)
  \/ FlushCall
  \/ \E f \in Flushers : FlushLock(f)
  \/ \E f \in Flushers : FlushAll(f)
  \/ \E f \in Flushers : FlushHang(f)

SpecEmit == Init /\ [][NextEmit]_vars

(***************************************************************************)
(* The terminating paths: goroutines call Fatal, Exit and Info, another    *)
(* calls Flush; no backend is registered.                                  *)
(***************************************************************************)
FatalCalls ==
  { Call("Info", <<Plain("a")>>),
    Call("Fatal", <<Plain("a")>>),
    Call("Exit", <<Plain("a")>>) }

NextFatal ==
  \/ \E t \in Loggers : \E call \in FatalCalls : LogCall(t, call)
  \/ \E t \in Loggers : LogLock(t)
  \/ \E t \in Loggers : LogWrite(t)
  \/ \E t \in Loggers : LogFatal(t)
  \/ \E t \in Loggers : LogFlushStart(t)
  \/ \E t \in Loggers : LogFlushDone(t)
  \/ \E t \in Loggers : LogFlushTimeout(t)
  \/ \E t \in Loggers : LogExit(t)
  \/ \E t \in Loggers : LogStats(t)
  \/ \E t \in Loggers : Publish(t)
  \/ FlushCall
  \/ \E f \in Flushers : FlushLock(f)
  \/ \E f \in Flushers : FlushAll(f)
  \/ \E f \in Flushers : FlushHang(f)

SpecFatal == Init /\ [][NextFatal]_vars

(***************************************************************************)
(* Tagged arguments: one goroutine makes calls of any severity with tagged *)
(* and untagged arguments mixed (the values tagged are x and y, those left *)
(* untagged a and b); backends register and receive.                       *)
(***************************************************************************)
DataCalls ==
  { Call("Info", <<Plain("a"), Data("x")>>),
    Call("Warning", <<Data("x")>>),
    Call("Error", <<Data("x"), Plain("a"), Data("y"), Plain("b")>>),
    Call("Fatal", <<Data("y"), Plain("a")>>) }

NextData ==
  \/ \E call \in DataCalls : LogCall(1, call)
  \/ \E t \in Loggers : LogLock(t)
  \/ \E t \in Loggers : LogWrite(t)
  \/ \E t \in Loggers : LogFatal(t)
  \/ \E t \in Loggers : LogFlushStart(t)
  \/ \E t \in Loggers : LogFlushTimeout(t)
  \/ \E t \in Loggers : LogExit(t)
  \/ \E t \in Loggers : LogStats(t)
  \/ \E t \in Loggers : Publish(t)
  \/ Running /\ RegisterBackend
  \/ Running /\ BcastRecv
  \/ Running /\ BcastSend
  \/ \E c \in Backends : Running /\ Receive(c)

SpecData == Init /\ [][NextData]_vars

(***************************************************************************)
(* The hub when RegisterBackend is called by two goroutines that do not    *)
(* order their calls, while a goroutine logs and the dispatcher runs.      *)
(***************************************************************************)
NextRace ==
  \/ LogCall(1, HubCall)
  \/ \E t \in Loggers : LogLock(t)
  \/ \E t \in Loggers : LogWrite(t)
  \/ \E t \in Loggers : LogStats(t)
  \/ \E t \in Loggers : Publish(t)
  \/ \E r \in Registrars : Running /\ RegCheck(r)
  \/ \E r \in Registrars : Running /\ RegAppend(r)
  \/ \E r \in Registrars : Running /\ RegStorePtr(r)
  \/ \E r \in Registrars : Running /\ RegStoreLen(r)
  \/ \E r \in Registrars : Running /\ RegReturn(r)
  \/ Running /\ BcastRecv
  \/ Running /\ BcastSend
  \/ Running /\ BcastJunk
  \/ \E c \in Backends : Running /\ Receive(c)

SpecRace == Init /\ [][NextRace]_vars

(***************************************************************************)
(* Fairness.  The Go scheduler runs every runnable goroutine, and a        *)
(* sync.Mutex hands the lock to a goroutine that has waited (starvation    *)
(* mode), so a log call that can step does, and one waiting for logging.mu *)
(* gets it if it is free again and again.  SpecHubProducers says nothing   *)
(* of the dispatcher or the subscribers: they may never run.  SpecHubFair  *)
(* adds that the dispatcher runs and every subscriber keeps receiving.     *)
(***************************************************************************)
FairProducers ==
  \A t \in Loggers :
    /\ SF_vars(LogLock(t))
    /\ WF_vars(LogWrite(t) \/ LogStats(t) \/ Publish(t))

FairDelivery ==
  /\ WF_vars(BcastRecv)
  /\ WF_vars(BcastSend)
  /\ \A c \in Backends : WF_vars(Receive(c))

\* The same for the terminating paths: every goroutine in a log call steps
\* when it can, timeoutFlush's timer fires, and a Flush waiting for
\* logging.mu gets it if it is free again and again.  Nothing makes
\* output.Flush return.
FairFatal ==
  /\ \A t \in Loggers :
       /\ SF_vars(LogLock(t))
       /\ WF_vars(LogWrite(t) \/ LogFatal(t) \/ LogFlushStart(t)
                   \/ LogFlushDone(t) \/ LogFlushTimeout(t) \/ LogExit(t)
                   \/ LogStats(t) \/ Publish(t))
  /\ \A f \in Flushers : SF_vars(FlushLock(f))

SpecFatalFair == SpecFatal /\ FairFatal

(***************************************************************************)
(* Formats and errors: one goroutine makes print and printf calls of any   *)
(* severity, with tagged and untagged arguments and with an error as an    *)
(* argument (as TestFormatString and TestErrorArgs do).                    *)
(***************************************************************************)
FmtCalls ==
  { Callf("Infof", <<"m", "=", "%", "v">>, <<Plain("a"), Data("x")>>),
    Callf("Warningf", <<"w">>, <<Data("x"), Data("y")>>),
    Callf("Errorf", <<"e", ":", " ", "%", "s">>, <<Plain("err1")>>),
    Callf("Fatalf", <<"%", "v">>, <<Data("y"), Plain("a")>>),
    Call("Error", <<Plain("err1")>>),
    Call("Error", <<Data("x"), Plain("a"), Data("y"), Plain("b")>>),
    Call("Info", <<Plain("a")>>) }

NextFmt ==
  \/ \E call \in FmtCalls : LogCall(1, call)
  \/ \E t \in Loggers : LogLock(t)
  \/ \E t \in Loggers : LogWrite(t)
  \/ \E t \in Loggers : LogFatal(t)
  \/ \E t \in Loggers : LogFlushStart(t)
  \/ \E t \in Loggers : LogFlushTimeout(t)
  \/ \E t \in Loggers : LogExit(t)
  \/ \E t \in Loggers : LogStats(t)
  \/ \E t \in Loggers : Publish(t)

SpecFmt == Init /\ [][NextFmt]_vars

(***************************************************************************)
(* Loggers (logger.go): Logger objects are made, from nothing and from one *)
(* another, and log calls are made on them.                                *)
(***************************************************************************)
\* The number of Logger objects made.
MaxObjects == 3

\* The prefixes and the data given to the Loggers.
Prefixes == {"p", "q"}

DataLists == { <<"d1", "d2">>, <<"d3">> }

\* Logger.WithPrefix, lines 57-61, and Logger.WithData, lines 70-74: the
\* Logger returned for receiver l.
withPrefix(l, prefix) == [prefix |-> prefix, data |-> l.data]

withData(l, list) == [prefix |-> l.prefix, data |-> list]

\* NewLogger, WithPrefix and WithData of the package, lines 17-49: a new
\* Logger with the prefix and data given, if any.
NewLogger ==
  /\ Len(heap) < MaxObjects
  /\ heap' = Append(heap, NoLogger)
  /\ UNCHANGED <<filterVars, hubVars, emitVars, regVars, skipped>>
  /\ UNCHANGED <<given, bufVars>>

WithPrefix(prefix) ==
  /\ Len(heap) < MaxObjects
  /\ heap' = Append(heap, withPrefix(NoLogger, prefix))
  /\ UNCHANGED <<filterVars, hubVars, emitVars, regVars, skipped>>
  /\ UNCHANGED <<given, bufVars>>

WithData(args) ==
  /\ Len(heap) < MaxObjects
  /\ heap' = Append(heap, withData(NoLogger, args))
  /\ UNCHANGED <<filterVars, hubVars, emitVars, regVars, skipped>>
  /\ UNCHANGED <<given, bufVars>>

\* Logger.WithPrefix and Logger.WithData, lines 53-75, called on the Logger
\* at address i: a new Logger is returned.
LoggerWithPrefix(i, prefix) ==
  /\ Len(heap) < MaxObjects
  /\ i \in 1 .. Len(heap)
  /\ heap' = Append(heap, withPrefix(heap[i], prefix))
  /\ UNCHANGED <<filterVars, hubVars, emitVars, regVars, skipped>>
  /\ UNCHANGED <<given, bufVars>>

LoggerWithData(i, list) ==
  /\ Len(heap) < MaxObjects
  /\ i \in 1 .. Len(heap)
  /\ heap' = Append(heap, withData(heap[i], list))
  /\ UNCHANGED <<filterVars, hubVars, emitVars, regVars, skipped>>
  /\ UNCHANGED <<given, bufVars>>

\* The calls made on Logger l.
LoggerCalls(l) ==
  { CallL("Logger.Info", l, <<>>, <<Plain("a"), Data("x")>>),
    CallL("Logger.Warning", l, <<>>, <<Plain("b")>>),
    CallL("Logger.Errorf", l, <<"%", "v">>, <<Data("x"), Plain("a")>>) }

\* One line is logged in a run, by any call on any of the Loggers made.
NextLogger ==
  \/ NewLogger
  \/ \E prefix \in Prefixes : WithPrefix(prefix)
  \/ \E args \in DataLists : WithData(args)
  \/ \E i \in 1 .. MaxObjects : \E prefix \in Prefixes :
       LoggerWithPrefix(i, prefix)
  \/ \E i \in 1 .. MaxObjects : \E list \in DataLists :
       LoggerWithData(i, list)
  \/ \E i \in 1 .. Len(heap) : \E call \in LoggerCalls(heap[i]) :
       lines = 0 /\ LogCall(1, call)
  \/ \E t \in Loggers : LogLock(t)
  \/ \E t \in Loggers : LogWrite(t)
  \/ \E t \in Loggers : LogStats(t)
  \/ \E t \in Loggers : Publish(t)

SpecLogger == Init /\ [][NextLogger]_vars

(***************************************************************************)
(* Guarded calls: one goroutine calls the methods of Verbose, with either  *)
(* value, and the If entry points, with an error and with nil.             *)
(***************************************************************************)
GuardCalls ==
  UNION {
    { CallV("V.Info", v, <<>>, <<Plain("a")>>),
      CallV("V.Infoln", v, <<>>, <<Plain("a"), Plain("b")>>),
      CallV("V.Infof", v, <<"m", "=", "%", "v">>, <<Plain("a")>>) }
    : v \in BOOLEAN }
  \cup UNION {
    { CallIf("WarningIf", err, <<>>, <<Plain("a")>>),
      CallIf("WarningIf", err, <<>>, <<>>),
      CallIf("WarningfIf", err, <<"w">>, <<>>),
      CallIf("ErrorIf", err, <<>>, <<Plain("a")>>),
      CallIf("ErrorfIf", err, <<"e", "=", "%", "v">>, <<Plain("a")>>),
      CallIf("FatalIf", err, <<>>, <<Plain("a")>>) }
    : err \in Errors \cup {NilError} }

NextGuard ==
  \/ \E call \in GuardCalls : GuardedCall(1, call)
  \/ \E t \in Loggers : LogLock(t)
  \/ \E t \in Loggers : LogWrite(t)
  \/ \E t \in Loggers : LogFatal(t)
  \/ \E t \in Loggers : LogFlushStart(t)
  \/ \E t \in Loggers : LogFlushTimeout(t)
  \/ \E t \in Loggers : LogExit(t)
  \/ \E t \in Loggers : LogStats(t)
  \/ \E t \in Loggers : Publish(t)

SpecGuard == Init /\ [][NextGuard]_vars

(***************************************************************************)
(* A failing sink: each write of a line either succeeds or returns an      *)
(* error; one goroutine makes calls of severity INFO, ERROR and FATAL.     *)
(***************************************************************************)
FailCalls ==
  { Call("Info", <<Plain("a")>>),
    Call("Error", <<Plain("a"), Plain("b")>>),
    Call("Fatal", <<Plain("a")>>) }

NextFail ==
  \/ \E call \in FailCalls : LogCall(1, call)
  \/ \E t \in Loggers : LogLock(t)
  \/ \E t \in Loggers : LogWrite(t)
  \/ \E t \in Loggers : LogWriteFail(t)
  \/ \E t \in Loggers : LogFatal(t)
  \/ \E t \in Loggers : LogFlushStart(t)
  \/ \E t \in Loggers : LogFlushTimeout(t)
  \/ \E t \in Loggers : LogExit(t)
  \/ \E t \in Loggers : LogStats(t)
  \/ \E t \in Loggers : Publish(t)

SpecFail == Init /\ [][NextFail]_vars

(***************************************************************************)
(* timeoutFlush: one goroutine makes the FATAL calls, another calls Flush; *)
(* a Flush may never return.                                               *)
(***************************************************************************)
NextFlush ==
  \/ \E call \in FatalCalls : LogCall(1, call)
  \/ LogLock(1)
  \/ LogWrite(1)
  \/ LogFatal(1)
  \/ LogFlushStart(1)
  \/ LogFlushDone(1)
  \/ LogFlushTimeout(1)
  \/ LogExit(1)
  \/ LogStats(1)
  \/ Publish(1)
  \/ FlushCall
  \/ \E f \in {0, 1} : FlushLock(f)
  \/ \E f \in {0, 1} : FlushAll(f)
  \/ \E f \in {0, 1} : FlushHang(f)

SpecFlush == Init /\ [][NextFlush]_vars

\* timeoutFlush goes on: the goroutine is started, and one of the cases of
\* the select is taken (the timer of time.After fires if nothing else does).
FairFlush ==
  WF_vars(LogFlushStart(1) \/ LogFlushDone(1) \/ LogFlushTimeout(1))

SpecFlushFair == SpecFlush /\ FairFlush

SpecHubProducers == SpecHub /\ FairProducers

SpecHubFair == SpecHub /\ FairProducers /\ FairDelivery

(***************************************************************************)
(* The buffers, lines 426-453, and their use by a log call, lines 610-627  *)
(* and 659-688.  A buffer is known by its address, a position in           *)
(* `buffers`; it has its bytes and its next pointer.  The steps under      *)
(* freeListMu are one step each.  Goroutines make INFO calls.              *)
(***************************************************************************)
\* Line 444: a buffer of this length or more is not put on the free list.
LargeBuffer == 256

\* The texts the calls format: a short one, and one that makes a line of
\* LargeBuffer bytes.
BufTexts == { <<"a">>, [i \in 1 .. LargeBuffer - 1 |-> "x"] }

\* Whether the call of t has its buffer and has not yet given it back.
Holds(t) ==
  /\ bufcall[t].b # NoBuffer
  /\ bufcall[t].pc \in {"reset", "format", "copy", "lock", "write",
                         "putBuffer"}

\* A log call starts: printWithDepth, line 610.
BufCall(t) ==
  /\ bufcall[t].pc = "idle"
  /\ lines + Cardinality({u \in Loggers :
                            bufcall[u].pc \notin {"idle", "putBuffer",
                                                  "unlock", "event"}})
       < MaxEvents
  /\ \E text \in BufTexts :
       bufcall' = [bufcall EXCEPT ![t] =
                     [IdleBuf EXCEPT !.pc = "getBuffer", !.text = text]]
  /\ UNCHANGED <<freeList, buffers, given>>
  /\ UNCHANGED <<filterVars, hubVars, emitVars, regVars, objVars>>

\* Mutant of freeListAfterGet: the head stays on the free list.
freeListKept(head, bufs) == head

\* Lines 428-431: the free list after getBuffer has taken its head.
freeListAfterGet(head, bufs) ==
  IF head # NoBuffer THEN bufs[head].next ELSE head

\* getBuffer, lines 427-432, under freeListMu: b := l.freeList, and the
\* list loses its head.
GetBuffer(t) ==
  /\ bufcall[t].pc = "getBuffer"
  /\ bufcall' = [bufcall EXCEPT ![t].pc = "reset", ![t].b = freeList]
  /\ freeList' = freeListAfterGet(freeList, buffers)
  /\ UNCHANGED <<buffers, given>>
  /\ UNCHANGED <<filterVars, hubVars, emitVars, regVars, objVars>>

\* getBuffer, lines 433-439: new(buffer) when the list was empty, else
\* b.next = nil and b.Reset().
ResetBuffer(t) ==
  /\ bufcall[t].pc = "reset"
  /\ IF bufcall[t].b = NoBuffer
     THEN /\ buffers' = Append(buffers, [bytes |-> <<>>, next |-> NoBuffer])
          /\ bufcall' = [bufcall EXCEPT ![t].pc = "format",
                                        ![t].b = Len(buffers) + 1]
     ELSE /\ buffers' = [buffers EXCEPT ![bufcall[t].b] =
                           [bytes |-> <<>>, next |-> NoBuffer]]
          /\ bufcall' = [bufcall EXCEPT ![t].pc = "format"]
  /\ UNCHANGED <<freeList, given>>
  /\ UNCHANGED <<filterVars, hubVars, emitVars, regVars, objVars>>

\* Line 613: fmt.Fprint(buf, ...) appends the text to the buffer.
FormatBuffer(t) ==
  /\ bufcall[t].pc = "format"
  /\ buffers' = [buffers EXCEPT ![bufcall[t].b].bytes = @ \o bufcall[t].text]
  /\ bufcall' = [bufcall EXCEPT ![t].pc = "copy"]
  /\ UNCHANGED <<freeList, given>>
  /\ UNCHANGED <<filterVars, hubVars, emitVars, regVars, objVars>>

\* Lines 615-621: mess is a copy of the bytes of the buffer; the buffer gets
\* its newline.
CopyMessage(t) ==
  /\ bufcall[t].pc = "copy"
  /\ bufcall' = [bufcall EXCEPT ![t].pc = "lock",
                                ![t].mess = buffers[bufcall[t].b].bytes]
  /\ buffers' = [buffers EXCEPT ![bufcall[t].b].bytes = withNewline(@)]
  /\ UNCHANGED <<freeList, given>>
  /\ UNCHANGED <<filterVars, hubVars, emitVars, regVars, objVars>>

\* Line 660: l.mu.Lock().
BufLock(t) ==
  /\ bufcall[t].pc = "lock"
  /\ MayLock(<<"log", t>>)
  /\ mu' = <<"log", t>>
  /\ bufcall' = [bufcall EXCEPT ![t].pc = "write"]
  /\ UNCHANGED <<verbosity, filterLength, vmodule, vmap, vcall, setter,
                 vmapFrom, wiped>>
  /\ UNCHANGED <<freeList, buffers, given>>
  /\ UNCHANGED <<hubVars, emitVars, regVars, objVars>>

\* Lines 667-668: output.Write(buf.Bytes()).
BufWrite(t) ==
  /\ bufcall[t].pc = "write"
  /\ lines' = lines + 1
  /\ sink' = Append(sink, [id |-> lines + 1, kind |-> "line",
                           bytes |-> buffers[bufcall[t].b].bytes])
  /\ bufcall' = [bufcall EXCEPT ![t].pc = "putBuffer", ![t].id = lines + 1]
  /\ UNCHANGED <<messageChan, backendChans, chanBuf, bcast, logger,
                 published, received, regSeen, relayLost, lost>>
  /\ UNCHANGED <<stats, fatalNoStacks, flush, exited, eventOf, calls,
                 traceLocation>>
  /\ UNCHANGED <<freeList, buffers, given>>
  /\ UNCHANGED <<filterVars, regVars, objVars>>

\* putBuffer, lines 443-453, called at line 681: a buffer shorter than
\* LargeBuffer becomes the head of the free list, under freeListMu.
PutBuffer(t) ==
  /\ bufcall[t].pc = "putBuffer"
  /\ IF Len(buffers[bufcall[t].b].bytes) >= LargeBuffer
     THEN UNCHANGED <<freeList, buffers>>
     ELSE /\ buffers' = [buffers EXCEPT ![bufcall[t].b].next = freeList]
          /\ freeList' = bufcall[t].b
  /\ bufcall' = [bufcall EXCEPT ![t].pc = "unlock"]
  /\ UNCHANGED given
  /\ UNCHANGED <<filterVars, hubVars, emitVars, regVars, objVars>>

\* Line 682: l.mu.Unlock().
BufUnlock(t) ==
  /\ bufcall[t].pc = "unlock"
  /\ mu' = Free
  /\ bufcall' = [bufcall EXCEPT ![t].pc = "event"]
  /\ UNCHANGED <<verbosity, filterLength, vmodule, vmap, vcall, setter,
                 vmapFrom, wiped>>
  /\ UNCHANGED <<freeList, buffers, given>>
  /\ UNCHANGED <<hubVars, emitVars, regVars, objVars>>

\* Lines 624-626: NewEvent(s, mess, dataArgs, extraDepth); the call returns.
BufEvent(t) ==
  /\ bufcall[t].pc = "event"
  /\ eventOf' = MapPut(eventOf, bufcall[t].id,
                       NewEvent(infoLog, bufcall[t].mess, <<>>))
  /\ bufcall' = [bufcall EXCEPT ![t] = IdleBuf]
  /\ UNCHANGED <<sink, stats, fatalNoStacks, flush, exited, calls,
                 traceLocation>>
  /\ UNCHANGED <<freeList, buffers, given>>
  /\ UNCHANGED <<filterVars, hubVars, regVars, objVars>>

NextBuf ==
  \/ \E t \in Loggers : BufCall(t)
  \/ \E t \in Loggers : GetBuffer(t)
  \/ \E t \in Loggers : ResetBuffer(t)
  \/ \E t \in Loggers : FormatBuffer(t)
  \/ \E t \in Loggers : CopyMessage(t)
  \/ \E t \in Loggers : BufLock(t)
  \/ \E t \in Loggers : BufWrite(t)
  \/ \E t \in Loggers : PutBuffer(t)
  \/ \E t \in Loggers : BufUnlock(t)
  \/ \E t \in Loggers : BufEvent(t)

SpecBuf == Init /\ [][NextBuf]_vars

(***************************************************************************)
(* -vmodule values with numbers of any width: one goroutine calls V while  *)
(* Set calls give values whose numbers fit 32 bits and values whose        *)
(* numbers do not.                                                         *)
(***************************************************************************)
NextWide ==
  \/ VCall(1)
  \/ VLoadVerbosity(1)
  \/ VLoadFilterLength(1)
  \/ VLock(1)
  \/ VLookup(1)
  \/ VSetV(1)
  \/ VUnlock(1)
  \/ VDone(1)
  \/ \E value \in VmoduleValues \cup WideValues : ModuleSpecSetTo(value)
  \/ ModuleSpecSetError
  \/ SetVerbosityOff
  \/ SetFilterLengthOff
  \/ SetFilter
  \/ SetVmap
  \/ SetFilterLengthOn
  \/ SetVerbosityOn

SpecWide == Init /\ [][NextWide]_vars

(***************************************************************************)
(* The counters: two goroutines make calls of every severity, and Exit     *)
(* calls, to a sink whose Write may fail.                                  *)
(***************************************************************************)
CountCalls ==
  { Call("Info", <<Plain("a")>>),
    Call("Warning", <<Plain("a")>>),
    Call("Error", <<Plain("a")>>),
    Call("Fatal", <<Plain("a")>>),
    Call("Exit", <<Plain("a")>>) }

NextCount ==
  \/ \E t \in {1, 2} : \E call \in CountCalls : LogCall(t, call)
  \/ \E t \in {1, 2} : LogLock(t)
  \/ \E t \in {1, 2} : LogWrite(t)
  \/ \E t \in {1, 2} : outputWrite(t, TRUE, 0)
  \/ \E t \in {1, 2} : LogFatal(t)
  \/ \E t \in {1, 2} : LogFlushStart(t)
  \/ \E t \in {1, 2} : LogFlushTimeout(t)
  \/ \E t \in {1, 2} : LogExit(t)
  \/ \E t \in {1, 2} : LogStats(t)
  \/ \E t \in {1, 2} : Publish(t)

SpecCount == Init /\ [][NextCount]_vars

(***************************************************************************)
(* Everything that takes logging.mu, together: log calls of severity INFO  *)
(* and FATAL and Exit calls of one goroutine, the V calls of another, Set    *)
(* calls of -vmodule, Flush and the Flush of timeoutFlush, with a sink     *)
(* whose Write and Flush return.  After os.Exit no goroutine runs.         *)
(***************************************************************************)
\* The -vmodule value the Set calls give: a.go is overridden.
LiveValue == <<Entry(<<"a">>, <<"2">>)>>

NextLive ==
  \/ \E call \in FatalCalls : LogCall(1, call)
  \/ LogLock(1)
  \/ LogWrite(1)
  \/ LogFatal(1)
  \/ LogFlushStart(1)
  \/ LogFlushDone(1)
  \/ LogFlushTimeout(1)
  \/ LogExit(1)
  \/ LogStats(1)
  \/ Publish(1)
  \/ FlushCall
  \/ \E f \in {0, 1} : FlushLock(f)
  \/ \E f \in {0, 1} : FlushAll(f)
  \/ Running /\ VCall(1) /\ vcall'[1].level = MaxLevel
  \/ Running /\ VLoadVerbosity(1)
  \/ Running /\ VLoadFilterLength(1)
  \/ Running /\ VLock(1)
  \/ Running /\ VLookup(1)
  \/ Running /\ VSetV(1)
  \/ Running /\ VUnlock(1)
  \/ Running /\ VDone(1)
  \/ Running /\ ModuleSpecSetTo(LiveValue)
  \/ Running /\ SetVerbosityOff
  \/ Running /\ SetFilterLengthOff
  \/ Running /\ SetFilter
  \/ Running /\ SetVmap
  \/ Running /\ SetFilterLengthOn
  \/ Running /\ SetVerbosityOn

\* Every goroutine inside a call steps when it needs no lock to do so: the
\* holder of logging.mu goes on to release it.  Who gets a free lock is
\* left open here.
FairLive ==
  /\ WF_vars(LogWrite(1) \/ LogFatal(1) \/ LogFlushStart(1)
               \/ LogFlushDone(1) \/ LogFlushTimeout(1) \/ LogExit(1)
               \/ LogStats(1) \/ Publish(1))
  /\ WF_vars(FlushAll(0) \/ FlushAll(1))
  /\ WF_vars(Running /\ (VLoadVerbosity(1) \/ VLoadFilterLength(1)
                           \/ VLookup(1) \/ VSetV(1) \/ VUnlock(1)))
  /\ WF_vars(Running /\ (SetVerbosityOff \/ SetFilterLengthOff \/ SetFilter
                           \/ SetVmap \/ SetFilterLengthOn
                           \/ SetVerbosityOn))

SpecLive == Init /\ [][NextLive]_vars /\ FairLive

(***************************************************************************)
(* The claims about the verbosity filter.                                  *)
(***************************************************************************)
\* The level the override table gives a call site: that of the pattern of
\* least index matching the site's file, 0 when none matches.
GateLevel(filter, site) ==
  LET hits == {i \in 1 .. Len(filter) : match(filter[i], SiteFile(site))}
  IN  IF hits = {} THEN 0
      ELSE filter[CHOOSE i \in hits : \A j \in hits : i <= j].level

\* The V calls that have their answer.
Answered == {t \in VThreads : vcall[t].pc = "done"}

\* C1: with an empty override table, a V(L) call that no configuration change
\* overlaps answers true exactly when L <= the global verbosity.
C1_EmptyTableGlobalOnly ==
  \A t \in Answered :
    vmodule = <<>> => (vcall[t].res <=> vcall[t].level <= verbosity)

\* C1 witness: V(1) answered true under verbosity 1 and an empty table.
C1_Witness ==
  \E t \in Answered :
    /\ vmodule = <<>>
    /\ verbosity = 1
    /\ vcall[t].level = 1
    /\ vcall[t].res

\* C2 as stated: with a non-empty override table the answer is L <= the level
\* of the matching pattern (0 when none matches), whatever the verbosity.
C2_OverrideRegardlessOfGlobal ==
  \A t \in Answered :
    vmodule # <<>> =>
      (vcall[t].res <=> vcall[t].level <= GateLevel(vmodule, vcall[t].site))

\* C2 amended: with a non-empty override table, a V(L) call answers true
\* exactly when L <= the global verbosity or L <= the level of the first
\* pattern matching its file (0 when none matches).
C2_OverrideOrGlobal ==
  \A t \in Answered :
    vmodule # <<>> =>
      (vcall[t].res <=>
         \/ vcall[t].level <= verbosity
         \/ vcall[t].level <= GateLevel(vmodule, vcall[t].site))

\* C2 witness: the override enables a call the global verbosity would not.
C2_Witness ==
  \E t \in Answered :
    /\ vmodule # <<>>
    /\ vcall[t].level > verbosity
    /\ vcall[t].level <= GateLevel(vmodule, vcall[t].site)
    /\ vcall[t].res

\* C3: with verbosity 0 and a non-empty override table, V(L) for L >= 1
\* answers true exactly when the first pattern matching the call site's file
\* has a level >= L.
C3_VerbosityZeroFirstMatch ==
  \A t \in Answered :
    (verbosity = 0 /\ vmodule # <<>> /\ vcall[t].level >= 1) =>
      (vcall[t].res <=>
         \E i \in 1 .. Len(vmodule) :
           /\ match(vmodule[i], SiteFile(vcall[t].site))
           /\ \A j \in 1 .. i - 1 :
                ~match(vmodule[j], SiteFile(vcall[t].site))
           /\ vmodule[i].level >= vcall[t].level)

\* C3 witness: verbosity 0, override a=2, V(2) from a.go is enabled.
C3_Witness ==
  \E t \in Answered :
    /\ verbosity = 0
    /\ vmodule = <<modulePat(<<"a">>, 2)>>
    /\ vcall[t].site = 1
    /\ vcall[t].level = 2
    /\ vcall[t].res

\* C4: but for the instant inside setVState between the assignment of the
\* new filter and the wipe of the cache (logging.mu held), every cached
\* level is the one the current override table gives its call site, and so
\* is the level a V call is about to answer from.
C4_CacheFollowsTable ==
  setter.pc # "vmap" =>
    /\ \A pc \in DOMAIN vmap : vmap[pc] = GateLevel(vmodule, pc)
    /\ \A t \in VThreads :
         vcall[t].pc = "return" =>
           vcall[t].v = GateLevel(vmodule, vcall[t].site)

\* C4 witness: a call site whose cached level a Set discarded is cached
\* again, at the level the new table gives it.
C4_Witness ==
  /\ setter.pc = "idle"
  /\ \E pc \in wiped : pc \in DOMAIN vmap

\* C5: while a V call reads or writes the cache or reads the pattern list,
\* every cache entry was resolved against the pattern list now in place.
C5_NoTornUpdate ==
  \A t \in VThreads :
    vcall[t].pc \in {"lookup", "setV", "return"} =>
      \A pc \in DOMAIN vmapFrom : vmapFrom[pc] = vmodule

\* C5 witness: a V call waits for the lock while setVState has set the new
\* filter and not yet wiped a cache that holds entries of the old one.
C5_Witness ==
  \E t \in VThreads :
    /\ vcall[t].pc = "lock"
    /\ setter.pc = "vmap"
    /\ \E pc \in DOMAIN vmapFrom : vmapFrom[pc] # vmodule

(***************************************************************************)
(* The claims about the event hub.                                         *)
(***************************************************************************)
\* What channel c was sent, in order: received and still buffered.
Delivered(c) == received[c] \o chanBuf[c]

\* C6 as stated: eventForBackends always completes, and puts the event on
\* messageChan when it holds fewer events than its capacity, else drops it.
C6_EnqueueUnlessFull ==
  /\ [](\A t \in Loggers : logger[t].pc = "publish" => ENABLED Publish(t))
  /\ [][\A t \in Loggers :
          Publish(t) =>
            IF Len(messageChan) < MessageChanCap
            THEN messageChan' = Append(messageChan, logger[t].id)
            ELSE messageChan' = messageChan]_vars

\* C6 amended: eventForBackends always completes in one step; it puts the
\* event on messageChan when at least one backend is registered and the
\* queue holds fewer events than its capacity, and otherwise drops it,
\* leaving the queue unchanged.
C6_EnqueueIfBackendUnlessFull ==
  /\ [](\A t \in Loggers : logger[t].pc = "publish" => ENABLED Publish(t))
  /\ [][\A t \in Loggers :
          Publish(t) =>
            IF Len(backendChans) > 0 /\ Len(messageChan) < MessageChanCap
            THEN messageChan' = Append(messageChan, logger[t].id)
            ELSE messageChan' = messageChan]_vars

\* C6 witness: an event was dropped at a full queue, others were enqueued.
C6_Witness ==
  /\ relayLost # {}
  /\ Len(published) >= MessageChanCap

\* No log call is in flight.
NoLogInFlight == \A t \in Loggers : logger[t].pc = "idle"

\* C7: every log call returns, whether or not the dispatcher or any
\* subscriber ever runs.  (A call that did not return would leave its
\* goroutine in flight for ever, so "again and again no call is in flight"
\* says of each call that it returns.)
C7_LogCallReturns == []<>NoLogInFlight

\* C7 witness: all log calls have returned though the queue is full, a
\* call's event was dropped, and no subscriber has received anything.
C7_Witness ==
  /\ \A t \in Loggers : logger[t].pc = "idle"
  /\ lines = MaxEvents
  /\ Len(messageChan) = MessageChanCap
  /\ relayLost # {}
  /\ \A c \in DOMAIN received : received[c] = <<>>

\* The number of times event e occurs in q.
Count(q, e) == Cardinality({i \in 1 .. Len(q) : q[i] = e})

\* Event e was put on messageChan after channel c was registered.
Owed(c, e) ==
  /\ c \in DOMAIN regSeen
  /\ \E i \in 1 .. Len(published) : published[i] = e /\ i > regSeen[c].pub

\* Subscriber c has received event e, or e was dropped at c's full channel.
Settled(c, e) ==
  /\ c \in DOMAIN received
  /\ e \in Range(received[c]) \cup lost[c]

\* Every event owed to a subscriber so far has been settled.
AllSettled == \A c \in Backends : \A e \in Events : Owed(c, e) => Settled(c, e)

\* C8: no subscriber is sent an event twice; and an event put on the relay
\* queue while a subscriber is registered is received by it, unless its
\* channel was full when the event was sent to it.  (What is owed stays
\* owed, so "again and again all that is owed is settled" says of each
\* event owed that it is settled later.)
C8_ExactlyOnce ==
  /\ [](\A c \in DOMAIN chanBuf : \A e \in Events : Count(Delivered(c), e) <= 1)
  /\ []<>AllSettled

\* C8 witness: one event, received by two subscribers registered before it.
C8_Witness ==
  \E e \in Events : \E c, d \in DOMAIN received :
    /\ c # d
    /\ Owed(c, e) /\ Owed(d, e)
    /\ received[c] = <<e>>
    /\ received[d] = <<e>>

\* C9 as stated: a subscriber is never sent an event that was put on the
\* relay queue before its registration.
C9_NothingPublishedEarlier ==
  \A c \in DOMAIN regSeen :
    \A i \in 1 .. regSeen[c].pub : published[i] \notin Range(Delivered(c))

\* C9 amended: a subscriber registered after the dispatch task began the
\* fan-out of an event (took it from the relay queue and read the subscriber
\* list) never receives that event; an event still on the relay queue, or
\* taken and not yet fanned out, when the subscriber registers is sent to it
\* too.
C9_NothingFannedOutEarlier ==
  \A c \in DOMAIN regSeen :
    \A i \in 1 .. regSeen[c].fan : published[i] \notin Range(Delivered(c))

\* C9 witness: a subscriber registered after an event's fan-out began has
\* received a later event, and not that one.
C9_Witness ==
  \E c \in DOMAIN regSeen :
    /\ regSeen[c].fan >= 1
    /\ received[c] # <<>>

\* The place of event e in the order of publishing.
PublishedAt(e) == CHOOSE i \in 1 .. Len(published) : published[i] = e

Writing == {t \in Loggers : logger[t].pc \in {"write", "fatal"}}

Flushing == {f \in Flushers : flush[f] \in {"flushing", "hung"}}

\* C16: a goroutine that is at NewEvent and eventForBackends does not hold
\* logging.mu.
C16_EventOutsideLock ==
  \A t \in Loggers : logger[t].pc = "publish" => mu # <<"log", t>>

\* C16 witness: a goroutine is at NewEvent while another, holding the lock,
\* writes its line.
C16_Witness ==
  \E t, u \in Loggers :
    /\ logger[t].pc = "publish"
    /\ logger[u].pc = "write"
    /\ mu = <<"log", u>>

\* C17: at most one goroutine writes to or flushes the sink at a time, each
\* holds logging.mu while it does, and the stack dump of a call follows
\* its line in the sink with nothing between.
C17_SinkSerialized ==
  /\ Cardinality(Writing) + Cardinality(Flushing) <= 1
  /\ \A t \in Writing : mu = <<"log", t>>
  /\ \A f \in Flushing : mu = <<"flush", f>>
  /\ \A i \in 1 .. Len(sink) :
       IF sink[i].kind = "stacks"
       THEN /\ i > 1
            /\ sink[i - 1].kind = "line"
            /\ sink[i - 1].id = sink[i].id
       ELSE \A j \in 1 .. Len(sink) :
              (j # i /\ sink[j].kind = "line") => sink[j].id # sink[i].id

\* C17 witness: the sink holds the line of a call, then the line and the
\* stack dump of another, while a third party waits for the lock.
C17_Witness ==
  /\ Len(sink) = 3
  /\ sink[3].kind = "stacks"
  /\ sink[1].id # sink[3].id
  /\ \E t \in Loggers : logger[t].pc = "lock"
  /\ flush[0] = "lock"

\* C18: a goroutine adds to the counters while it holds logging.mu.
C18_StatsUnderLock ==
  \A t \in Loggers : logger[t].pc = "stats" => mu = <<"log", t>>

\* The bytes passed to the sink for line e.
SinkBytes(e) ==
  LET i == CHOOSE k \in 1 .. Len(sink) : sink[k].id = e /\ sink[k].kind = "line"
  IN  sink[i].bytes

\* The goroutines whose call completes its counting in this step.
Counted == {t \in Loggers : logger[t].pc = "stats" /\ logger'[t].pc # "stats"}

\* C19: no counter ever decreases; a step in which an INFO, WARNING or ERROR
\* call completes adds 1 to the lines and the length of the bytes passed to
\* the sink to the bytes of its severity and leaves the other severities
\* alone; no other step changes a counter.
C19_CountersExact ==
  [][ /\ \A s \in DOMAIN stats :
           /\ stats'[s].lines >= stats[s].lines
           /\ stats'[s].bytes >= stats[s].bytes
      /\ \A t \in Counted :
           \A s \in DOMAIN stats :
             IF s = severityOf(calls[logger[t].id].fn)
             THEN /\ stats'[s].lines = stats[s].lines + 1
                  /\ stats'[s].bytes =
                       stats[s].bytes + Len(SinkBytes(logger[t].id))
             ELSE stats'[s] = stats[s]
      /\ Counted = {} => stats' = stats ]_vars

\* C19 witness: a WARNING and an INFO line have been counted, each under its
\* own severity with its own length.
C19_Witness ==
  /\ stats[warningLog] = [lines |-> 1, bytes |-> 4]
  /\ stats[infoLog] = [lines |-> 1, bytes |-> 3]
  /\ stats[errorLog].lines = 0

\* Whether the stack dump of line e is in the sink.
HasStacks(e) ==
  \E i \in 1 .. Len(sink) : sink[i].id = e /\ sink[i].kind = "stacks"

\* Whether the line of call e is in the sink.
HasLine(e) ==
  \E i \in 1 .. Len(sink) : sink[i].id = e /\ sink[i].kind = "line"

\* The goroutines in a call of severity FATAL.
InFatal == {t \in Loggers : logger[t].pc # "idle" /\ logger[t].s = fatalLog}

\* C12: the process exits only after the line of the exiting FATAL call is
\* in the sink and the call has started its flush; a goroutine in a FATAL
\* call never returns; and every FATAL call is followed by the exit of the
\* process, whatever other calls and Flush calls do, a Flush that never
\* completes included.
C12_FatalTerminates ==
  /\ [](~Running => /\ HasLine(logger[exited.by].id)
                     /\ flush[exited.by] # "none")
  /\ [][\A t \in InFatal : logger'[t].pc # "idle"]_vars
  /\ \A t \in Loggers : (t \in InFatal) ~> ~Running

\* C13: when the process has exited from a Fatal call, the call's stack dump
\* is in the sink and the status is 255; when it has exited from an Exit
\* call, no stack dump of the call is in the sink and the status is 1.
C13_PathsDistinct ==
  ~Running =>
    LET me == logger[exited.by]
    IN  /\ me.fn = "Fatal" => HasStacks(me.id) /\ exited.status = 255
        /\ me.fn = "Exit" => ~HasStacks(me.id) /\ exited.status = 1

(***************************************************************************)
(* The claims about tagged arguments.                                      *)
(***************************************************************************)
\* The values a call passed wrapped with Data().
TaggedIn(call) ==
  {call.args[i].d : i \in {k \in 1 .. Len(call.args) : call.args[k].tagged}}

SetRejected ==
  \/ LevelSetError
  \/ ModuleSpecSetError
  \/ \E value \in TraceValues :
       /\ TraceLocationSet(value)
       /\ traceSet(value, traceLocation).err # "nil"

\* C20: a Set call of -v, -vmodule or -log_backtrace_at that returns an
\* error leaves verbosity, the override table, the call-site cache and the
\* trace location as they were.
C20_RejectedSetKeepsConfig ==
  [][SetRejected =>
       UNCHANGED <<verbosity, filterLength, vmodule, vmap, traceLocation>>]_vars

(***************************************************************************)
(* The claims about registration.                                          *)
(***************************************************************************)
\* C14: at most one dispatch task has been started, and one has been once
\* a registration has returned.
C14_OneDispatchTask ==
  /\ tasks <= 1
  /\ returned # {} => tasks = 1

\* C15: the list the dispatch task walks is never one made of the array of
\* one registration and the length of another, and every channel
\* RegisterBackend has returned is in the subscriber list.
C15_RegistrationSafe ==
  /\ Junk \notin Range(bcast.snap)
  /\ \A c \in returned : c \in Range(sliceOf(backendChans, backendLen))

(***************************************************************************)
(* The claims about the event of a line.                                   *)
(***************************************************************************)
\* The lines whose call is over: it has returned, or the process has exited
\* from it.
CallOver(e) ==
  \/ \A t \in Loggers : logger[t].id # e
  \/ ~Running /\ logger[exited.by].id = e

\* C21: every line in the sink whose call is over, of whatever severity,
\* has had one Event built and handed to eventForBackends, and the call
\* held no lock when it did so.
C21_OneEventPerLine ==
  /\ \A e \in 1 .. lines : CallOver(e) => e \in DOMAIN eventOf
  /\ \A t \in Loggers : logger[t].pc = "publish" => mu # <<"log", t>>

(***************************************************************************)
(* The claims about the fan-out to the subscribers.                        *)
(***************************************************************************)
\* C30: the dispatch task is never held up in its loop over the subscriber
\* list; a pass of the loop appends the event to the channel of the
\* subscriber it is at when that channel has room, leaves it as it is when
\* full, and touches no other channel; an event is left out at a
\* subscriber only by a pass that found its channel full; and when the loop
\* over the list ends, every subscriber of the list has been sent the event
\* or had its channel full, whatever the other subscribers' channels held.
C30_SubscribersIndependent ==
  /\ [](bcast.pc = "send" => ENABLED BcastSend)
  /\ [][BcastSend =>
          LET c == bcast.snap[bcast.i]
          IN  /\ chanBuf'[c] = IF Len(chanBuf[c]) < BackendChanCap
                               THEN Append(chanBuf[c], bcast.e)
                               ELSE chanBuf[c]
              /\ \A d \in DOMAIN chanBuf \ {c} : chanBuf'[d] = chanBuf[d]
              /\ lost'[c] # lost[c] => Len(chanBuf[c]) >= BackendChanCap]_vars
  /\ [][~BcastSend => \A c \in DOMAIN lost : lost'[c] = lost[c]]_vars
  /\ [][bcast.pc = "send" /\ bcast'.pc = "recv" =>
          \A c \in Range(bcast.snap) :
            bcast.e \in Range(received'[c] \o chanBuf'[c]) \cup lost'[c]]_vars

\* C30 witness: an event was dropped at the full channel of a subscriber
\* that has never read, and another subscriber has received that event.
C30_Witness ==
  \E e \in Events : \E c, d \in DOMAIN received :
    /\ c # d
    /\ received[c] = <<>>
    /\ Len(chanBuf[c]) = BackendChanCap
    /\ e \in lost[c]
    /\ e \in Range(received[d])

(***************************************************************************)
(* The claims about the transition of setVState.                           *)
(***************************************************************************)
\* setVState has stored both zeros and has not yet stored the new
\* filterLength.
InTransition == setter.pc \in {"filter", "vmap", "filterLengthOn"}

Dumps ==
  {i \in 1 .. Len(sink) :
     sink[i].kind = "line" /\ "stacks" \in Range(sink[i].bytes)}

\* Goroutine t logs from the file and line the trace location names.
AtTrace(t) ==
  /\ traceLocation.line > 0
  /\ traceLocation.line = Caller(t).line
  /\ traceLocation.file = <<"a", ".", "g", "o">>

\* C22 as stated: with the trace location set once and for all before the
\* first line, the stack dump is written at most once, however many log
\* calls execute at the location.
C22_OneTimeDump == Cardinality(Dumps) <= 1

\* C22 amended: a log call writes the stack dump with its line if and only
\* if a trace location is set and the call executes at exactly that file
\* and line: the first such call and every later one alike.
C22_DumpAtEveryHit ==
  [][\A t \in Loggers :
       LogWrite(t) =>
         LET chunk == sink'[Len(sink')]
         IN  /\ Len(sink') = Len(sink) + 1
             /\ chunk.kind = "line"
             /\ "stacks" \in Range(chunk.bytes) <=> AtTrace(t)]_vars

\* C22 witness: two lines in the sink carry the dump, and the trace
\* location is still set.
C22_Witness ==
  /\ Cardinality(Dumps) >= 2
  /\ isSet(traceLocation)

(***************************************************************************)
(* The claims about timeoutFlush.                                          *)
(***************************************************************************)
\* The goroutines inside timeoutFlush.
InTimeoutFlush ==
  {t \in Loggers : logger[t].pc \in {"timeoutFlush", "select"}}

\* C29: a goroutine in timeoutFlush leaves it, whatever Flush does; it can
\* leave at once when the Flush it started has reported on done; and the
\* goroutine it started is never left waiting at its send on done, after
\* the timeout no more than before.
C29_TimeoutFlushReturns ==
  /\ \A t \in Loggers : (t \in InTimeoutFlush) ~> (t \notin InTimeoutFlush)
  /\ [](\A t \in Loggers :
          Running /\ logger[t].pc = "select" /\ flush[t] = "done" =>
            ENABLED LogFlushDone(t))
  /\ [](\A t \in Loggers : flush[t] # "report")

\* C29 witness: timeoutFlush has returned on the timeout; the Flush it
\* started holds the lock and is still to return and to report on done.
C29_Witness ==
  \E t \in Loggers :
    /\ logger[t].pc = "exit"
    /\ flush[t] = "flushing"
    /\ mu = <<"flush", t>>

(***************************************************************************)
(* The claims about a failing sink.                                        *)
(***************************************************************************)
\* The lines whose write returned an error.
FailedLines ==
  {sink[i].id : i \in {k \in 1 .. Len(sink) : sink[k].kind = "failed"}}

\* The bytes the sink reported as written for line e.
Written(e) ==
  LET i == CHOOSE k \in 1 .. Len(sink) :
             sink[k].id = e /\ sink[k].kind # "stacks"
  IN  Len(sink[i].bytes)

\* The lines of severity s that are past the counting.
PastStats(s) ==
  {e \in 1 .. lines :
     /\ severityOf(calls[e].fn) = s
     /\ \A t \in Loggers : logger[t].id = e => logger[t].pc # "stats"}

RECURSIVE TaggedSeq(_)
TaggedSeq(args) ==
  IF args = <<>> THEN <<>>
  ELSE (IF Head(args).tagged THEN <<Head(args).d>> ELSE <<>>)
         \o TaggedSeq(Tail(args))

ErrorsIn(call) ==
  {call.args[i].d :
     i \in {k \in 1 .. Len(call.args) :
              ~call.args[k].tagged /\ call.args[k].d \in Errors}}

\* C26: the Event of a call that passed an error err as an argument has
\* ErrorArg{err} in its Data, and the call's line in the sink has the
\* error's message.
C26_ErrorArgInData ==
  /\ \A e \in DOMAIN eventOf :
       \A err \in ErrorsIn(calls[e]) :
         ("ErrorArg{" \o err \o "}") \in Range(eventOf[e].Data)
  /\ \A i \in 1 .. Len(sink) :
       sink[i].kind = "line" =>
         \A err \in ErrorsIn(calls[sink[i].id]) :
           ErrorText(err) \in Range(sink[i].bytes)

(***************************************************************************)
(* The claims about guarded calls.                                         *)
(***************************************************************************)
\* The call is one of a method of Verbose(false), or of an If entry point
\* with a nil error.
GuardIsFalse(call) ==
  \/ call.fn \in {"V.Info", "V.Infoln", "V.Infof"} /\ ~call.v
  \/ /\ call.fn \in {"WarningIf", "WarningfIf", "ErrorIf", "ErrorfIf",
                     "FatalIf"}
     /\ call.err = "nil"

\* C24: a call of a method of Verbose(false), or of an If entry point with a
\* nil error, changes nothing of the program's state: nothing is written,
\* counted or published, no lock is taken and the process goes on; no line
\* in the sink, no call under way and no exit is of such a call.
C24_FalseGuardNoEffect ==
  /\ [][\A t \in Loggers : \A call \in GuardCalls :
          GuardIsFalse(call) /\ GuardedCall(t, call) =>
            UNCHANGED <<filterVars, hubVars, emitVars, regVars, heap>>]_vars
  /\ [](\A e \in DOMAIN calls : ~GuardIsFalse(calls[e]))
  /\ [](\A t \in Loggers :
          logger[t].pc # "idle" => ~GuardIsFalse(logger[t].call))

\* C24 witness: FatalIf(nil, "a") has returned; the process runs, the sink
\* is empty, no counter has moved and no Event is built.
C24_Witness ==
  /\ skipped.fn = "FatalIf"
  /\ Running
  /\ sink = <<>>
  /\ \A s \in DOMAIN stats : stats[s].lines = 0
  /\ DOMAIN eventOf = {}

(***************************************************************************)
(* The claims about Loggers.                                               *)
(***************************************************************************)
\* The Logger made in this step.
Made == heap'[Len(heap')]

\* C27: the Data of the Event of a call on a Logger begins with the values
\* the call wrapped with Data(), in order, followed by the Logger's data, in
\* order, and none of the Logger's data is in the call's line in the sink;
\* the Logger WithData returns has the data given and the receiver's prefix,
\* the Logger WithPrefix returns has the prefix given and the receiver's
\* data, and both leave the receiver, and every other Logger, as it was.
C27_LoggerDataAttached ==
  /\ [](\A e \in DOMAIN eventOf :
          LET own == TaggedSeq(calls[e].args)
              all == own \o calls[e].lg.data
          IN  /\ Len(eventOf[e].Data) >= Len(all)
              /\ SubSeq(eventOf[e].Data, 1, Len(all)) = all)
  /\ [](\A i \in 1 .. Len(sink) :
          \A d \in Range(calls[sink[i].id].lg.data) :
            d \notin Range(sink[i].bytes))
  /\ [][\A i \in 1 .. Len(heap) : \A list \in DataLists :
          LoggerWithData(i, list) =>
            /\ Made.data = list
            /\ Made.prefix = heap[i].prefix
            /\ \A j \in 1 .. Len(heap) : heap'[j] = heap[j]]_vars
  /\ [][\A i \in 1 .. Len(heap) : \A prefix \in Prefixes :
          LoggerWithPrefix(i, prefix) =>
            /\ Made.prefix = prefix
            /\ Made.data = heap[i].data
            /\ \A j \in 1 .. Len(heap) : heap'[j] = heap[j]]_vars

\* C27 witness: a Logger with prefix p and data d3 was made by WithData from
\* one with prefix p and data d1, d2, which is still there; a call on it
\* with the tagged argument x has its Event, with Data x, d3, and its line,
\* with the prefix.
C27_Witness ==
  \E i, j \in 1 .. Len(heap) : \E e \in DOMAIN eventOf :
    /\ i < j
    /\ heap[i] = [prefix |-> "p", data |-> <<"d1", "d2">>]
    /\ heap[j] = [prefix |-> "p", data |-> <<"d3">>]
    /\ calls[e].lg = heap[j]
    /\ calls[e].fn = "Logger.Info"
    /\ eventOf[e].Data = <<"x", "d3">>
    /\ \E k \in 1 .. Len(sink) : sink[k].bytes = <<"I", "p", "a", "\n">>



(***************************************************************************)
(* The claim about publishing with no backend registered.                  *)
(***************************************************************************)
\* The log call of line e has returned and its event was neither put on the
\* relay queue nor dropped at a full queue: no backend was registered when
\* it was published.
Unsent(e) ==
  /\ e \in DOMAIN eventOf
  /\ e \notin Range(published)
  /\ e \notin relayLost

\* C31: an event is put on the relay queue if and only if at least one
\* backend is registered when it is published and the queue has room; while
\* no backend has been registered the relay queue is empty; and an event
\* published while no backend was registered is never on the relay queue,
\* in the dispatcher's hands, or sent to any subscriber afterwards.
C31_EnqueueIffBackend ==
  /\ [][\A t \in Loggers :
          Publish(t) =>
            ((messageChan' = Append(messageChan, logger[t].id))
               <=> (Len(backendChans) > 0
                      /\ Len(messageChan) < MessageChanCap))]_vars
  /\ [](backendChans = <<>> => messageChan = <<>>)
  /\ [](\A e \in Events :
          Unsent(e) =>
            /\ e \notin Range(messageChan)
            /\ bcast.pc = "send" => bcast.e # e
            /\ \A c \in DOMAIN chanBuf : e \notin Range(Delivered(c)))

\* C31 witness: a call returned before the first registration and its event
\* went nowhere; a subscriber registered since has received a later event.
C31_Witness ==
  \E e \in Events : \E c \in DOMAIN received :
    /\ Unsent(e)
    /\ received[c] # <<>>
    /\ e \notin Range(received[c])


(***************************************************************************)
(* The claim about the stack frames and the severity of an Event.          *)
(***************************************************************************)
\* The severity of the call that wrote line e.
SeverityOfLine(e) == severityOf(calls[e].fn)

GivenLevel(value, file) ==
  LET hits == {i \in 1 .. Len(value) :
                 match(modulePat(value[i].pattern, 0), file)}
  IN  IF hits = {} THEN 0
      ELSE Level(ParseInt(value[CHOOSE i \in hits : \A j \in hits : i <= j].n))

\* Whether a -vmodule value holds an entry of level 0.
HasZeroEntry(value) ==
  \E i \in 1 .. Len(value) : ParseInt(value[i].n).limbs = ZeroLimbs

\* C32: the level resolved for a call site is that of the first pattern, in
\* the order the patterns were given to the vmodule setting, that matches
\* the site's file name (directory and .go cut), and 0 when none matches;
\* for every accepted list, those with entries of level 0 included.
C32_FirstGivenPatternDecides ==
  setter.pc # "vmap" =>
    /\ \A pc \in DOMAIN vmap : vmap[pc] = GivenLevel(given, SiteFile(pc))
    /\ \A t \in VThreads :
         vcall[t].pc = "return" =>
           vcall[t].v = GivenLevel(given, SiteFile(vcall[t].site))

\* The same for the lists given without an entry of level 0.
C32_FirstGivenPatternNoZero ==
  ~HasZeroEntry(given) => C32_FirstGivenPatternDecides


(***************************************************************************)
(* The claim about what a Set call leaves alone.                           *)
(***************************************************************************)
\* The Set call in progress returns in this step.
SetReturns == setter.pc = "verbosityOn" /\ setter'.pc = "idle"

\* C34: when Level.Set returns, the override table, filterLength and the
\* call-site cache are as the call found them; when moduleSpec.Set returns,
\* the global verbosity is as the call found it.
C34_SetFrame ==
  [][SetReturns =>
       IF setter.setFilter
       THEN verbosity' = setter.kept.verbosity
       ELSE /\ vmodule' = setter.kept.filter
            /\ filterLength' = setter.kept.filterLength
            /\ vmap' = setter.kept.vmap]_vars

\* C34 witness: a Level.Set that changes the verbosity is about to return;
\* it found patterns in the table and levels in the cache, it has had
\* filterLength at 0 and stored it again.
C34_Witness ==
  /\ setter.pc = "verbosityOn"
  /\ ~setter.setFilter
  /\ setter.verbosity # 0
  /\ setter.kept.filter # <<>>
  /\ setter.kept.vmap # EmptyMap
  /\ filterLength = setter.kept.filterLength
  /\ filterLength > 0


(***************************************************************************)
(* The claim about V calls that overlap a change of the configuration.     *)
(***************************************************************************)
\* What V(level) at a call site answers when no Set overlaps it, under a
\* configuration: the global verbosity and the override table.
VAnswer(cfg, site, level) ==
  \/ level <= cfg.verbosity
  \/ cfg.filter # <<>> /\ level <= GateLevel(cfg.filter, site)

\* The configuration the program was started with.
ConfigBefore == [verbosity |-> StartVerbosity, filter |-> <<>>]

\* The configuration in place now, or the one the Set call in progress puts
\* in place.
ConfigAfter ==
  IF setter.pc = "idle" THEN [verbosity |-> verbosity, filter |-> vmodule]
  ELSE IF setter.setFilter
  THEN [verbosity |-> setter.kept.verbosity, filter |-> setter.filter]
  ELSE [verbosity |-> setter.verbosity, filter |-> setter.kept.filter]

\* C35 as stated: the answer of a V call is the answer under the
\* configuration before the change or under the configuration after it.
C35_AnswerBeforeOrAfter ==
  \A t \in Answered :
    \/ vcall[t].res = VAnswer(ConfigBefore, vcall[t].site, vcall[t].level)
    \/ vcall[t].res = VAnswer(ConfigAfter, vcall[t].site, vcall[t].level)

\* C35 amended: a V call answers true only if the configuration before the
\* change or the one after it enables the call; it may answer false though
\* both enable it, when it reads the verbosity and filterLength while
\* setVState has them at 0.
C35_TrueOnlyIfBeforeOrAfter ==
  \A t \in Answered :
    vcall[t].res =>
      \/ VAnswer(ConfigBefore, vcall[t].site, vcall[t].level)
      \/ VAnswer(ConfigAfter, vcall[t].site, vcall[t].level)

\* C35 witness: a V call returned false while a Set call was between its
\* first and its last store, and the configurations before and after that
\* call both enable it.
C35_Witness ==
  \E t \in Answered :
    /\ setter.pc \notin {"idle", "verbosityOff"}
    /\ ~vcall[t].res
    /\ VAnswer(ConfigBefore, vcall[t].site, vcall[t].level)
    /\ VAnswer(ConfigAfter, vcall[t].site, vcall[t].level)


(***************************************************************************)
(* The claim about the order of publishing and the order of the sink.      *)
(***************************************************************************)
\* The call that wrote line e has released the lock and not yet returned.
InFlightLine(e) ==
  \E u \in Loggers : logger[u].id = e /\ logger[u].pc \in {"stats", "publish"}

\* The event of line e has been put on the relay queue, dropped at the full
\* queue, or dropped for want of a backend: its call has returned.
Accounted(e) == e \in Range(published) \cup relayLost \/ Unsent(e)

\* C36 as stated: events are put on the relay queue in the order of their
\* lines in the sink.
C36_PublishFollowsSink ==
  \A i, j \in 1 .. Len(published) : i < j => published[i] < published[j]

\* C36 amended: an event is put on the relay queue by its own call, between
\* the release of the lock and the return; the events it overtakes, those
\* of earlier lines not yet on the queue, belong to calls that are still
\* between the release of the lock and their return, so the events of calls
\* that do not overlap are published in the order of the sink; and each
\* subscriber is sent events in the order of publishing.
C36_OvertakesOnlyInFlight ==
  /\ [][\A e \in Events :
          (e \in Range(published') /\ e \notin Range(published)) =>
            /\ InFlightLine(e)
            /\ \A a \in 1 .. e - 1 : Accounted(a) \/ InFlightLine(a)]_vars
  /\ [](\A c \in DOMAIN chanBuf :
          \A i, j \in 1 .. Len(Delivered(c)) :
            i < j =>
              \E k, l \in 1 .. Len(published) :
                /\ k < l
                /\ published[k] = Delivered(c)[i]
                /\ published[l] = Delivered(c)[j])

\* C36 witness: a subscriber received the event of the second line before
\* the event of the first, and both calls have returned.
C36_Witness ==
  /\ NoLogInFlight
  /\ \E c \in DOMAIN received :
       \E i, j \in 1 .. Len(received[c]) :
         i < j /\ received[c][i] > received[c][j]


(***************************************************************************)
(* The claim about the release of logging.mu.                              *)
(***************************************************************************)
\* The places of a log call after its write step: the counters, the
\* publishing, timeoutFlush and its select, and os.Exit.
AfterWriteStep == {"stats", "publish", "timeoutFlush", "select", "exit"}

\* C37: a log call past its write step (on the normal path, the Fatal path
\* or the Exit path) does not hold logging.mu, so the lock is released
\* before any flush, publish or exit; and with a sink whose Write and Flush
\* return, logging.mu is free again after every time it is taken unless the
\* process exits, which is all a Set call waits for; and a log call, a V
\* call or a Flush to which the mutex gives the lock when it is free again
\* and again does not wait for ever.
C37_LockReleased ==
  /\ [](\A t \in Loggers :
          logger[t].pc \in AfterWriteStep => mu # <<"log", t>>)
  /\ [][\A t \in Loggers :
          (logger[t].pc \in {"write", "fatal"}
             /\ logger'[t].pc \in AfterWriteStep) => mu' = Free]_vars
  /\ [](~Running => mu # <<"log", exited.by>>)
  /\ [](mu # Free => <>(mu = Free \/ ~Running))
  /\ SF_vars(LogLock(1)) =>
       ((logger[1].pc = "lock") ~> (logger[1].pc # "lock" \/ ~Running))
  /\ SF_vars(Running /\ VLock(1)) =>
       ((vcall[1].pc = "lock") ~> (vcall[1].pc # "lock" \/ ~Running))
  /\ SF_vars(FlushLock(0)) =>
       ((flush[0] = "lock") ~> (flush[0] # "lock" \/ ~Running))
  /\ SF_vars(FlushLock(1)) =>
       ((flush[1] = "lock") ~> (flush[1] # "lock" \/ ~Running))

\* C37 witness: the log call, the V call and a Flush wait for logging.mu
\* while a Set call holds it.
C37_Witness ==
  /\ Running
  /\ mu = <<"Set">>
  /\ logger[1].pc = "lock"
  /\ vcall[1].pc = "lock"
  /\ flush[0] = "lock"


(***************************************************************************)
(* The claim about the counters and the lines of the sink.                 *)
(***************************************************************************)
\* The lines of severity s handed to the sink so far (a line whose Write
\* returned an error was handed to the sink like any other; the stack dump
\* of a FATAL call is not a line).
LinesWritten(s) ==
  {i \in 1 .. Len(sink) :
     sink[i].kind # "stacks" /\ severityOf(calls[sink[i].id].fn) = s}

\* The log calls of severity s that have written their line and not yet
\* counted it.
Uncounted(s) ==
  {t \in Loggers : logger[t].s = s /\ logger[t].pc = "stats"}

C39_StoredLevelsPositive ==
  /\ \A i \in 1 .. Len(vmodule) : vmodule[i].level >= 1
  /\ setter.pc = "idle" => filterLength = Len(vmodule)


(***************************************************************************)
(* The claim about the recycling of buffers.                               *)
(***************************************************************************)
RECURSIVE ListFrom(_, _)
\* The addresses of the list that starts at b, followed n links at most.
ListFrom(b, n) ==
  IF b = NoBuffer \/ n = 0 THEN {}
  ELSE {b} \cup ListFrom(buffers[b].next, n - 1)

\* The buffers on the free list.
OnFreeList == ListFrom(freeList, Len(buffers))

\* The bytes of line e in the sink.
LineBytes(e) ==
  LET i == CHOOSE k \in 1 .. Len(sink) : sink[k].id = e IN sink[i].bytes

\* C40: no buffer is held by two log calls in flight, no buffer on the free
\* list is held by a call in flight, the bytes a call hands to the sink are
\* the text it formatted and its newline, the Message of its Event is the
\* text it formatted, and no later step changes an Event or a line of the
\* sink.
C40_RecyclingKeepsBytes ==
  /\ [](\A t, u \in Loggers :
          t # u /\ Holds(t) /\ Holds(u) => bufcall[t].b # bufcall[u].b)
  /\ [](\A t \in Loggers : Holds(t) => bufcall[t].b \notin OnFreeList)
  /\ [][\A t \in Loggers :
          BufWrite(t) =>
            sink'[Len(sink')].bytes = withNewline(bufcall[t].text)]_vars
  /\ [][\A t \in Loggers :
          BufEvent(t) =>
            eventOf'[bufcall[t].id].Message = bufcall[t].text]_vars
  /\ [][/\ \A e \in DOMAIN eventOf :
             e \in DOMAIN eventOf' /\ eventOf'[e] = eventOf[e]
        /\ SubSeq(sink', 1, Len(sink)) = sink]_vars
  /\ [](\A e \in DOMAIN eventOf :
          LineBytes(e) = withNewline(eventOf[e].Message))

\* C40 witness: the one buffer there is has been used for the first line,
\* put on the free list and taken from it by a later call, which has
\* formatted a long text in it; the first line and its Event are what the
\* first call made them.
C40_Witness ==
  /\ Len(buffers) = 1
  /\ lines = 1
  /\ 1 \in DOMAIN eventOf
  /\ eventOf[1].Message = <<"a">>
  /\ LineBytes(1) = <<"a", "\n">>
  /\ \E t \in Loggers :
       /\ Holds(t)
       /\ bufcall[t].b = 1
       /\ bufcall[t].pc = "lock"
       /\ Len(buffers[1].bytes) = LargeBuffer

=============================================================================
